---- MODULE Spec2Model ----
(***************************************************************************)
(* md2cf: the directory walk that turns a tree of markdown documents into  *)
(* an ordered list of pages (md2cf/document.py) and the reconciliation of  *)
(* those pages against the remote store (md2cf/upsert.py).                 *)
(*                                                                         *)
(* Strings that the code computes on (directory names, titles, revision    *)
(* messages) are sequences of one-character strings.  An Optional value is *)
(* None (the empty tuple) or Some(x) (the one-element tuple holding x).    *)
(***************************************************************************)
EXTENDS Integers, Sequences, FiniteSets, TLC

VARIABLES
    tree,             \* the directory tree on disk: path -> directory contents
    opts,             \* keyword arguments of get_pages_from_directory
    todo,             \* directories os.walk has still to yield, in order
    folder_data,      \* get_pages_from_directory's folder_data dict
    processed_pages,  \* get_pages_from_directory's processed_pages list
    origin,           \* origin[i]: the directory whose visit appended page i
    pc,               \* "walk", "returned" or "raised"
    raised,           \* the exception that ended the walk ("" when none)
    remote,           \* the remote store: its pages, page i having id i
    uopts,            \* message, only_changed, replace_all_labels; runs to make
    run,              \* the reconciliation run under way (1, 2, ...)
    cursor,           \* index in processed_pages of the next page to upsert
    results,          \* one record per upsert_page call made so far
    files,            \* the file system: path of an attachment -> its bytes
    attached,         \* the remote store: the attachments of the remote page
    aopts,            \* page, existing_page, message, only_changed of upsert_attachment
    aresults,         \* one record per upsert_attachment call made so far
    markdown_lines,   \* the lines of a document
    built,            \* what the call made on markdown_lines gave
    disk,             \* the file system: which directories hold .git, .mdignore
    git_repo,         \* the GitRepository object, None before it is constructed
    answer,           \* what the call of is_ignored gave, None before the call
    composing,        \* function, base message, only_changed and content
    composed,         \* the revision message composed, None before
    recovered         \* what CONTENT_HASH_REGEX finds in it, None before

walkVars == <<tree, opts, todo, folder_data, origin, pc, raised>>
upsertVars == <<remote, uopts, run, cursor, results>>
attachVars == <<files, attached, aopts, aresults>>
docVars == <<markdown_lines, built>>
gitVars == <<disk, git_repo, answer>>
msgVars == <<composing, composed, recovered>>
vars == <<tree, opts, todo, folder_data, processed_pages, origin, pc, raised,
          remote, uopts, run, cursor, results,
          files, attached, aopts, aresults, markdown_lines, built,
          disk, git_repo, answer, composing, composed, recovered>>

-----------------------------------------------------------------------------
(* Bounds of the model. *)

\* deepest directory below the root directory
MaxDepth == 3
\* number of directories of a tree, the root included
MaxDirs == 4
\* number of times the same page list is reconciled
MaxRuns == 2
\* number of upsert_attachment calls made for a page
MaxCalls == 3
\* number of lines of a document
MaxLines == 4
\* number of directories that hold a .git
MaxGit == 2
\* number of directories that hold a .mdignore file
MaxMdignore == 2

-----------------------------------------------------------------------------
(* Program constants. *)

\* CONTENT_HASH_REGEX: the number of hexadecimal digits of a fingerprint
HashLen == 40

-----------------------------------------------------------------------------
(* Optional values and strings. *)

None == <<>>
Some(x) == <<x>>
Get(o) == o[1]

\* str.replace(old, new) for one-character old and new
Replace(s, old, new) == [i \in 1..Len(s) |-> IF s[i] = old THEN new ELSE s[i]]

LowerLetters == <<"a", "b", "c", "d", "e", "f">>
UpperLetters == <<"A", "B", "C", "D", "E", "F">>

Upper(c) ==
    IF \E i \in 1..Len(LowerLetters) : LowerLetters[i] = c
    THEN UpperLetters[CHOOSE i \in 1..Len(LowerLetters) : LowerLetters[i] = c]
    ELSE c

Lower(c) ==
    IF \E i \in 1..Len(UpperLetters) : UpperLetters[i] = c
    THEN LowerLetters[CHOOSE i \in 1..Len(UpperLetters) : UpperLetters[i] = c]
    ELSE c

\* str.capitalize(): first character upper case, the rest lower case
Capitalize(s) == [i \in 1..Len(s) |-> IF i = 1 THEN Upper(s[i]) ELSE Lower(s[i])]

\* the beautified name with the "_" replacement left out
BeautifyDashOnly(name) == Capitalize(Replace(name, "-", " "))

\* current_path.name.replace("-", " ").replace("_", " ").capitalize()
Beautify(name) == Capitalize(Replace(Replace(name, "-", " "), "_", " "))

-----------------------------------------------------------------------------
(* Paths.  A directory is the sequence of directory names that leads to it *)
(* from the directory the walk starts in, which is the empty sequence.     *)

base_path == <<>>

\* name of the directory the walk starts in
RootName == <<"r">>

DirNames == {<<"a", "_", "B">>, <<"c", "-", "d">>}

\* rank of a directory name in the order os.walk lists sibling directories
NameRank(n) == IF n = <<"a", "_", "B">> THEN 1 ELSE 2

\* Path.name
Name(p) == IF p = base_path THEN RootName ELSE p[Len(p)]

\* Path.parent
Parent(p) == SubSeq(p, 1, Len(p) - 1)

\* str(current_path.relative_to(ancestor)): the remaining names joined by "/"
RECURSIVE JoinNames(_)
JoinNames(names) ==
    IF Len(names) = 0 THEN <<>>
    ELSE IF Len(names) = 1 THEN names[1]
    ELSE names[1] \o <<"/">> \o JoinNames(Tail(names))

\* the path from the start directory, whatever the ancestor
RelativeToBase(p, ancestor) == JoinNames(p)

RelativeTo(p, ancestor) == JoinNames(SubSeq(p, Len(ancestor) + 1, Len(p)))

IsPrefix(q, p) == Len(q) <= Len(p) /\ SubSeq(p, 1, Len(q)) = q

\* the subdirectories os.walk reports for p (its `directories` list)
Subdirs(t, p) == {q \in DOMAIN t : Len(q) = Len(p) + 1 /\ IsPrefix(p, q)}
-----------------------------------------------------------------------------
(* Pages. *)

\* Page.__init__: attachments default to the empty list
Page(title, body, file_path, parent_title, labels, attachments) ==
    [title |-> title, body |-> body, file_path |-> file_path,
     page_id |-> None, parent_id |-> None, parent_title |-> parent_title,
     labels |-> labels,
     attachments |-> IF attachments = None THEN <<>> ELSE Get(attachments)]

\* `if x:` for an Optional string: neither None nor the empty string
Truthy(o) == o # None /\ Get(o) # <<>>

\* get_page_data_from_file_path(file_path), for the file `doc` of directory
\* `dir`.  The markdown renderer is an opaque function of the file's text:
\* the file carries what it renders to (rendered_title, body, attachments)
\* and what its frontmatter holds (fm_title, labels).  None when the file
\* cannot be read.
GetPageDataFromFilePath(dir, doc) ==
    IF ~doc.readable THEN None
    ELSE LET t0 == IF doc.fm_title # None THEN doc.fm_title ELSE doc.rendered_title
             t1 == IF Truthy(t0) THEN t0 ELSE Some(doc.name)
         IN Some([Page(t1, doc.body, Some([dir |-> dir, name |-> doc.name]),
                       None, doc.labels, Some(doc.attachments))
                  EXCEPT !.labels = IF doc.labels_is_list THEN doc.labels ELSE None])

-----------------------------------------------------------------------------
(* The directory walk: get_pages_from_directory. *)

\* folder_data[key] = value
Put(f, key, value) == [k \in DOMAIN f \cup {key} |-> IF k = key THEN value ELSE f[k]]

\* the proper ancestors of p, nearest first, that the walk can have visited
\* (Path.parents also lists the directories above the start directory, which
\* are never keys of folder_data)
Parents(p) == [i \in 1..Len(p) |-> SubSeq(p, 1, Len(p) - i)]

\* find_non_empty_parent_path without the n_files test: the nearest visited
\* ancestor, with documents or not
FindNearestParentPath(current_dir, fd, default) ==
    LET ps == Parents(current_dir)
        hits == {i \in 1..Len(ps) : ps[i] \in DOMAIN fd}
    IN IF hits = {} THEN default
       ELSE ps[CHOOSE i \in hits : \A j \in hits : i <= j]

\* find_non_empty_parent_path(current_dir, folder_data, default)
FindNonEmptyParentPath(current_dir, fd, default) ==
    LET ps == Parents(current_dir)
        hits == {i \in 1..Len(ps) : ps[i] \in DOMAIN fd /\ fd[ps[i]].n_files # 0}
    IN IF hits = {} THEN default
       ELSE ps[CHOOSE i \in hits : \A j \in hits : i <= j]

\* order of file names within one directory (sorted(markdown_files))
DocStems == << <<"p">>, <<"q">> >>
StemRank(n) == CHOOSE i \in 1..Len(DocStems) : DocStems[i] = n

RECURSIVE SortedDocs(_)
SortedDocs(docs) ==
    IF docs = {} THEN <<>>
    ELSE LET first == CHOOSE d \in docs :
                          \A e \in docs : StemRank(d.name) <= StemRank(e.name)
         IN <<first>> \o SortedDocs(docs \ {first})

\* the directory-content file _<dirname>.md of directory p, when it exists
ContentDoc(t, p) == [Get(t[p].content) EXCEPT !.name = <<"_">> \o Name(p)]

\* lines 272-273 left out: the folder keeps the title it had
TitleKept(fd, p, n_files, page, o) == fd

\* lines 272-273: the title of a lone document replaces the folder's title
TitleOfCollapsed(fd, p, n_files, page, o) ==
    IF n_files = 1 /\ o.collapse_single_pages
    THEN [fd EXCEPT ![p].title = page.title]
    ELSE fd

\* lines 252-273: the loop over sorted(markdown_files).  acc is
\* [raised, fd, pages]; the loop stops at the first exception.
RECURSIVE LoopDocs(_, _, _, _, _, _, _)
LoopDocs(docs, p, n_files, directories, parent_page_title, o, acc) ==
    IF docs = <<>> \/ acc.raised # "" THEN acc
    ELSE LET page_data == GetPageDataFromFilePath(p, Head(docs))
             next ==
                 IF page_data = None THEN acc
                 ELSE IF o.collapse_single_pages /\ n_files = 1 /\ directories = {}
                 THEN \* folder_data[current_path]["parent_title"]: no such key
                      [acc EXCEPT !.raised = "KeyError:parent_title"]
                 ELSE LET page == [Get(page_data) EXCEPT
                                       !.parent_title = parent_page_title]
                      IN [raised |-> "",
                          pages |-> Append(acc.pages, page),
                          fd |-> TitleOfCollapsed(acc.fd, p, n_files, page, o)]
         IN LoopDocs(Tail(docs), p, n_files, directories, parent_page_title, o, next)

\* lines 167-172: the directory whose title becomes this folder's parent title
FolderParentPath(p, fd, o) ==
    IF o.skip_empty \/ o.collapse_empty
    THEN FindNonEmptyParentPath(p, fd, base_path)
    ELSE Parent(p)

\* lines 175-190, the branch that keeps the folder: the folder's own title
DefaultFolderTitle(p, folder_parent_path, o) ==
    IF o.beautify_folders THEN Beautify(Name(p))
    ELSE IF o.collapse_empty THEN RelativeTo(p, folder_parent_path)
    ELSE Name(p)

\* lines 191-195 left undone (the TODO of line 166): no .pages title is read
PagesFileTitleUnread(d, o) == None

\* lines 191-195: the title a .pages file gives the folder, None without one
PagesFileTitle(d, o) ==
    IF o.use_pages_file /\ d.pages_file THEN d.pages_title ELSE None

\* the test of lines 200-213 with `parent_page_title is None` alone
ContentTitleIsParentTitleOnlyNone(p, d, parent_page_title, o) ==
    parent_page_title = None

\* lines 200-213: whether the directory-content file's title also becomes
\* the parent title of the directory's documents
ContentTitleIsParentTitle(p, d, parent_page_title, o) ==
    \/ parent_page_title = Some(Name(p))
    \/ o.beautify_folders /\ parent_page_title = Some(Beautify(Name(p)))
    \/ parent_page_title = None
    \/ o.use_pages_file /\ ~d.pages_file

\* the test of lines 218-225 without `or directories`
EmitsFolderPageNoDirectories(folder_title, n_files, directories, dir_content_page_data, o) ==
    /\ folder_title # None
    /\ (n_files > 0 \/ dir_content_page_data # None)
    /\ ~(o.skip_empty /\ n_files = 0 /\ dir_content_page_data = None)
    /\ ~(o.collapse_empty /\ n_files = 0 /\ dir_content_page_data = None)

\* lines 218-225: whether the directory gets a page of its own
EmitsFolderPage(folder_title, n_files, directories, dir_content_page_data, o) ==
    /\ folder_title # None
    /\ (n_files > 0 \/ directories # {} \/ dir_content_page_data # None)
    /\ ~(o.skip_empty /\ n_files = 0 /\ dir_content_page_data = None)
    /\ ~(o.collapse_empty /\ n_files = 0 /\ dir_content_page_data = None)

\* lines 227-250: the directory's own page
FolderPage(folder_title, folder_parent_title, dir_content_page_data) ==
    IF dir_content_page_data # None
    THEN LET c == Get(dir_content_page_data)
         IN Page(folder_title, c.body, c.file_path, folder_parent_title,
                 c.labels, Some(c.attachments))
    ELSE Page(folder_title, "", None, folder_parent_title, None, None)

\* lines 126-273: the body of the os.walk loop for a directory p that is not
\* ignored.  The result is [raised, fd, pages].
VisitDirectory(t, p, fd, pages, o) ==
    LET d == t[p]
        dcf_read == d.content # None /\ ~d.content_ignored
        dir_content_page_data ==
            IF dcf_read THEN GetPageDataFromFilePath(p, ContentDoc(t, p)) ELSE None
        markdown_files == d.docs
        n_files == Cardinality(markdown_files)
        directories == Subdirs(t, p)
        fd1 == Put(fd, p, [n_files |-> n_files, title |-> None])
        folder_parent_path == FolderParentPath(p, fd1, o)
        parent_known == folder_parent_path \in DOMAIN fd1
        folder_parent_title ==
            IF p # base_path /\ parent_known THEN fd1[folder_parent_path].title
            ELSE None
        single == n_files = 1 /\ o.collapse_single_pages
        default_title == Some(DefaultFolderTitle(p, folder_parent_path, o))
        \* lines 165-190
        ppt0 == IF p = base_path THEN None
                ELSE IF single THEN folder_parent_title ELSE default_title
        ft0 == IF p = base_path \/ single THEN None ELSE default_title
        \* lines 191-196
        pages_title == PagesFileTitle(d, o)
        ppt1 == IF pages_title # None THEN pages_title ELSE ppt0
        ft1 == IF pages_title # None THEN pages_title ELSE ft0
        \* lines 198-214
        dcp_title == dir_content_page_data # None
                     /\ Truthy(Get(dir_content_page_data).title)
        folder_title == IF dcp_title THEN Get(dir_content_page_data).title ELSE ft1
        parent_page_title ==
            IF dcp_title /\ ContentTitleIsParentTitle(p, d, ppt1, o)
            THEN Get(dir_content_page_data).title
            ELSE ppt1
        fd2 == [fd1 EXCEPT ![p].title = folder_title]
        pages2 ==
            IF EmitsFolderPage(folder_title, n_files, directories,
                               dir_content_page_data, o)
            THEN Append(pages, FolderPage(folder_title, folder_parent_title,
                                          dir_content_page_data))
            ELSE pages
    IN IF dcf_read /\ dir_content_page_data = None
       THEN \* line 139: dir_content_page_data.file_path = ... on None
            [raised |-> "AttributeError:file_path", fd |-> fd, pages |-> pages]
       ELSE IF p # base_path /\ ~parent_known
       THEN \* line 174: folder_data[folder_parent_path]
            [raised |-> "KeyError:folder_parent_path", fd |-> fd1, pages |-> pages]
       ELSE LoopDocs(SortedDocs(markdown_files), p, n_files, directories,
                     parent_page_title, o,
                     [raised |-> "", fd |-> fd2, pages |-> pages2])

\* os.walk(file_path), top-down: a directory, then each of its subdirectories
\* in listing order (by name, or by name reversed)
RECURSIVE WalkOrder(_, _, _)
RECURSIVE WalkEach(_, _, _)
WalkOrder(t, p, rev) == <<p>> \o WalkEach(t, Subdirs(t, p), rev)
WalkEach(t, dirs, rev) ==
    IF dirs = {} THEN <<>>
    ELSE LET first == CHOOSE q \in dirs : \A r \in dirs :
                          IF rev THEN NameRank(Name(r)) <= NameRank(Name(q))
                          ELSE NameRank(Name(q)) <= NameRank(Name(r))
         IN WalkOrder(t, first, rev) \o WalkEach(t, dirs \ {first}, rev)

\* one iteration of `for current_path, directories, file_names in os.walk(...)`
WalkDirectory ==
    /\ pc = "walk"
    /\ todo # <<>>
    /\ LET current_path == Head(todo)
       IN IF tree[current_path].ignored
          THEN \* line 123: if git_repo.is_ignored(current_path): continue
               /\ todo' = Tail(todo)
               /\ UNCHANGED <<folder_data, processed_pages, origin, pc, raised>>
          ELSE LET r == VisitDirectory(tree, current_path, folder_data,
                                       processed_pages, opts)
               IN /\ folder_data' = r.fd
                  /\ processed_pages' = r.pages
                  /\ origin' = [i \in 1..Len(r.pages) |->
                                    IF i <= Len(origin) THEN origin[i]
                                    ELSE current_path]
                  /\ raised' = r.raised
                  /\ pc' = IF r.raised = "" THEN "walk" ELSE "raised"
                  /\ todo' = IF r.raised = "" THEN Tail(todo) ELSE todo
    /\ UNCHANGED <<tree, opts>>
    /\ UNCHANGED <<upsertVars, attachVars, docVars, gitVars, msgVars>>

\* line 275: return processed_pages
WalkReturn ==
    /\ pc = "walk"
    /\ todo = <<>>
    /\ pc' = "returned"
    /\ UNCHANGED <<tree, opts, todo, folder_data, processed_pages, origin, raised>>
    /\ UNCHANGED <<upsertVars, attachVars, docVars, gitVars, msgVars>>

-----------------------------------------------------------------------------
(* Fingerprints and revision messages: md2cf/upsert.py. *)

HexDigits == {"0", "1", "2", "3", "4", "5", "6", "7", "8", "9",
              "a", "b", "c", "d", "e", "f"}

\* hashlib.sha1(body.encode()).hexdigest(): HashLen hexadecimal digits, and
\* different digests for the different bodies of the model
Sha1(body) ==
    LET d == IF body = "" THEN <<"d", "a">>
             ELSE IF body = "body-p" THEN <<"1", "e">>
             ELSE IF body = "body-q" THEN <<"7", "c">>
             ELSE <<"0", "b">>
    IN [i \in 1..HashLen |-> IF i % 2 = 1 THEN d[1] ELSE d[2]]

\* Page.get_content_hash
GetContentHash(page) == Sha1(page.body)

\* lines 79-83 with the fingerprint appended only to an empty message
ComposeMessageEmptyOnly(message, only_changed, hash) ==
    IF ~only_changed THEN message
    ELSE IF message # <<>> THEN message
    ELSE <<"[", "v">> \o hash \o <<"]">>

\* lines 79-83: the revision message that carries the fingerprint
ComposeMessage(message, only_changed, hash) ==
    IF ~only_changed THEN message
    ELSE IF message # <<>> THEN message \o <<" ", "[", "v">> \o hash \o <<"]">>
    ELSE <<"[", "v">> \o hash \o <<"]">>

\* whether the token [v<HashLen hex digits>] ends at position `last` of msg
TokenEndsAt(msg, last) ==
    /\ last >= HashLen + 3
    /\ last <= Len(msg)
    /\ msg[last] = "]"
    /\ msg[last - HashLen - 2] = "["
    /\ msg[last - HashLen - 1] = "v"
    /\ \A k \in (last - HashLen)..(last - 1) : msg[k] \in HexDigits

\* the search without `$`: the first token anywhere in the message
ContentHashSearchFirst(msg) ==
    LET ends == {e \in 1..Len(msg) : TokenEndsAt(msg, e)}
    IN IF ends = {} THEN None
       ELSE LET e == CHOOSE x \in ends : \A y \in ends : x <= y
            IN Some(SubSeq(msg, e - HashLen, e - 1))

\* CONTENT_HASH_REGEX.search(msg): group(1) of the match, None without one.
\* `$` matches at the end of the string and before a newline that ends it.
ContentHashSearch(msg) ==
    LET n == Len(msg)
        ends == {e \in {n - 1, n} :
                    /\ TokenEndsAt(msg, e)
                    /\ (e = n \/ msg[n] = "\n")}
    IN IF ends = {} THEN None
       ELSE LET e == CHOOSE x \in ends : \A y \in ends : x <= y
            IN Some(SubSeq(msg, e - HashLen, e - 1))

-----------------------------------------------------------------------------
(* The remote store, md2cf/api.py: a page written is the page read back.   *)
(* A remote page is [id, title, body, ancestors, message, labels]; the     *)
(* ancestors of a page are ids, the parent last, none for a top-level page.*)

\* MinimalConfluence.get_page(title=..., page_id=...), None when not found
GetPage(store, title, page_id) ==
    IF page_id # None
    THEN IF Get(page_id) \in 1..Len(store) THEN Some(store[Get(page_id)]) ELSE None
    ELSE LET hits == {i \in 1..Len(store) : Some(store[i].title) = title}
         IN IF hits = {} THEN None
            ELSE Some(store[CHOOSE i \in hits : \A j \in hits : i <= j])

AncestorsUnder(store, parent_id) ==
    IF parent_id = None THEN <<>>
    ELSE IF Get(parent_id) \in 1..Len(store)
    THEN Append(store[Get(parent_id)].ancestors, Get(parent_id))
    ELSE <<Get(parent_id)>>

\* MinimalConfluence.create_page: the store with the new page as its last
CreatePage(store, title, body, parent_id, update_message, labels) ==
    Append(store,
           [id |-> Len(store) + 1, title |-> Get(title), body |-> body,
            ancestors |-> AncestorsUnder(store, parent_id),
            message |-> update_message,
            labels |-> IF labels = None THEN <<>> ELSE Get(labels)])

\* MinimalConfluence.update_page: labels=None leaves the labels alone
UpdatePage(store, page, body, parent_id, update_message, labels) ==
    [store EXCEPT ![page.id] =
        [@ EXCEPT !.body = body,
                  !.ancestors = AncestorsUnder(store, parent_id),
                  !.message = update_message,
                  !.labels = IF labels = None THEN @ ELSE Get(labels)]]

\* MinimalConfluence.add_labels: the labels are added to those of the page
AddLabels(store, page, labels) ==
    [store EXCEPT ![page.id].labels =
        @ \o SelectSeq(labels, LAMBDA l : \A i \in 1..Len(@) : @[i] # l)]

-----------------------------------------------------------------------------
(* Reconciliation of one page: upsert_page. *)

\* sorted(a) != sorted(b): the two lists differ as bags
SortedDiffer(a, b) ==
    \E x \in {a[i] : i \in 1..Len(a)} \cup {b[i] : i \in 1..Len(b)} :
        Cardinality({i \in 1..Len(a) : a[i] = x})
            # Cardinality({i \in 1..Len(b) : b[i] = x})

\* labels_need_updating(page, existing_page), None read as False
LabelsNeedUpdating(page, existing_page) ==
    IF page.labels = None THEN FALSE
    ELSE SortedDiffer(existing_page.labels, Get(page.labels))

\* lines 135-145 with the move to the top level as the only move noticed
PlacementDiffersTopLevelOnly(page, existing_page) ==
    page.parent_id = None /\ existing_page.ancestors # <<>>

\* lines 135-145: the page is to move to or from the top level, or to
\* another parent
PlacementDiffers(page, existing_page) ==
    \/ page.parent_id = None /\ existing_page.ancestors # <<>>
    \/ /\ page.parent_id # None
       /\ \/ existing_page.ancestors = <<>>
          \/ Get(page.parent_id) #
                 existing_page.ancestors[Len(existing_page.ancestors)]

\* page_needs_updating(page, existing_page, replace_all_labels)
PageNeedsUpdating(page, existing_page, replace_all_labels) ==
    IF PlacementDiffers(page, existing_page) THEN TRUE
    ELSE IF replace_all_labels /\ LabelsNeedUpdating(page, existing_page) THEN TRUE
    ELSE LET existing_page_hash_match == ContentHashSearch(existing_page.message)
         IN ~(/\ existing_page_hash_match # None
              /\ Get(existing_page_hash_match) = GetContentHash(page))

\* get_parent_id_from_title with a parent that is not found read as no parent
GetParentIdFromTitleOrNone(store, page) ==
    LET parent_page == GetPage(store, page.parent_title, None)
    IN [raised |-> "",
        id |-> IF parent_page = None THEN None ELSE Some(Get(parent_page).id)]

\* get_parent_id_from_title(confluence, page): [raised, id]
GetParentIdFromTitle(store, page) ==
    LET parent_page == GetPage(store, page.parent_title, None)
    IN IF parent_page = None THEN [raised |-> "KeyError", id |-> None]
       ELSE [raised |-> "", id |-> Some(Get(parent_page).id)]

\* line 106 with the labels of the page sent whatever replace_all_labels is
UpdateLabelsAlways(page, replace_all_labels) == page.labels

\* line 106: the labels argument of update_page
UpdateLabels(page, replace_all_labels) ==
    IF replace_all_labels THEN page.labels ELSE None

\* lines 113-117 without the comparison with the labels of the remote page
AddsLabelsUncompared(page, existing_page, replace_all_labels) ==
    /\ ~replace_all_labels
    /\ page.labels # None /\ Get(page.labels) # <<>>

\* lines 113-117: whether add_labels is called
AddsLabels(page, existing_page, replace_all_labels) ==
    /\ ~replace_all_labels
    /\ page.labels # None /\ Get(page.labels) # <<>>
    /\ LabelsNeedUpdating(page, existing_page)

\* lines 98-100 without `not only_changed`: the comparison decides alone
UpdatesWhenNeeded(page, existing_page, only_changed, replace_all_labels) ==
    PageNeedsUpdating(page, existing_page, replace_all_labels)

\* lines 98-100: whether the existing page is written
Updates(page, existing_page, only_changed, replace_all_labels) ==
    \/ ~only_changed
    \/ PageNeedsUpdating(page, existing_page, replace_all_labels)

\* upsert_page(confluence, message, page, only_changed, replace_all_labels).
\* The result is [action, page, store, calls, labels_sent]: the action
\* returned ("KeyError" when get_parent_id_from_title raises), the page
\* object as the call leaves it, the store as the call leaves it, the writes
\* sent and the labels argument of each.
UpsertPage(store, message, page, only_changed, replace_all_labels) ==
    LET existing_page == GetPage(store, page.title, page.page_id)
        resolves == page.parent_id = None /\ page.parent_title # None
        parent == GetParentIdFromTitle(store, page)
        page1 == IF resolves /\ parent.raised = ""
                 THEN [page EXCEPT !.parent_id = parent.id]
                 ELSE page
        page_message == ComposeMessage(message, only_changed, GetContentHash(page1))
        updates == existing_page # None
                   /\ Updates(page1, Get(existing_page), only_changed,
                              replace_all_labels)
        store1 ==
            IF existing_page = None
            THEN CreatePage(store, page1.title, page1.body, page1.parent_id,
                            page_message, page1.labels)
            ELSE IF updates
            THEN UpdatePage(store, Get(existing_page), page1.body, page1.parent_id,
                            page_message, UpdateLabels(page1, replace_all_labels))
            ELSE store
        adds == /\ existing_page # None
                /\ AddsLabels(page1, store1[Get(existing_page).id],
                              replace_all_labels)
        store2 == IF adds
                  THEN AddLabels(store1, Get(existing_page), Get(page1.labels))
                  ELSE store1
    IN IF resolves /\ parent.raised # ""
       THEN \* get_parent_id_from_title: raise KeyError
            [action |-> parent.raised, page |-> page, store |-> store,
             calls |-> <<>>, labels_sent |-> <<>>]
       ELSE [action |-> IF existing_page = None THEN "CREATED"
                        ELSE IF updates THEN "UPDATED" ELSE "SKIPPED",
             page |-> page1,
             store |-> store2,
             calls |-> (IF existing_page = None THEN <<"create_page">>
                        ELSE IF updates THEN <<"update_page">> ELSE <<>>)
                       \o (IF adds THEN <<"add_labels">> ELSE <<>>),
             labels_sent |->
                 (IF existing_page = None THEN <<page1.labels>>
                  ELSE IF updates THEN <<UpdateLabels(page1, replace_all_labels)>>
                  ELSE <<>>)
                 \o (IF adds THEN <<page1.labels>> ELSE <<>>)]

\* the caller's loop: upsert_page for the next page of the list, in list
\* order; a page that fails is reported and the run goes on with the next.
\* The record kept of a call holds the page object and the remote page
\* before and after it.
UpsertNext ==
    /\ pc = "returned"
    /\ run <= uopts.runs
    /\ cursor <= Len(processed_pages)
    /\ LET page == processed_pages[cursor]
           r == UpsertPage(remote, uopts.message, page, uopts.only_changed,
                           uopts.replace_all_labels)
       IN /\ remote' = r.store
          /\ processed_pages' = [processed_pages EXCEPT ![cursor] = r.page]
          /\ results' = Append(results,
                 [run |-> run, index |-> cursor, action |-> r.action,
                  calls |-> r.calls, labels_sent |-> r.labels_sent,
                  page |-> page, page_after |-> r.page,
                  existing |-> GetPage(remote, page.title, page.page_id),
                  after |-> GetPage(r.store, page.title, page.page_id),
                  held |-> \E i \in 1..Len(remote) :
                               Some(remote[i].title) = page.title,
                  parent_held |-> \E i \in 1..Len(remote) :
                                      Some(remote[i].title) = page.parent_title,
                  wrote |-> r.store # remote])
    /\ IF cursor < Len(processed_pages)
       THEN cursor' = cursor + 1 /\ run' = run
       ELSE cursor' = 1 /\ run' = run + 1
    /\ UNCHANGED <<tree, opts, todo, folder_data, origin, pc, raised, uopts>>
    /\ UNCHANGED <<attachVars, docVars, gitVars, msgVars>>

-----------------------------------------------------------------------------
(* Reconciliation of one attachment: upsert_attachment.  A path is the      *)
(* sequence of its components, "/" first when it is absolute; the paths of  *)
(* the model hold no symbolic link and no dot component.  The remote store  *)
(* keeps the attachments of the page by file name: an attachment written is *)
(* the attachment read back.                                                *)

\* the contents a file can have
FileBytes == {"bytes-1", "bytes-2"}

\* get_file_sha1(file_path): HashLen hexadecimal digits, and different
\* digests for the different contents of the model
GetFileSha1(bytes) ==
    LET d == IF bytes = "bytes-1" THEN <<"4", "f">> ELSE <<"9", "2">>
    IN [i \in 1..HashLen |-> IF i % 2 = 1 THEN d[1] ELSE d[2]]

\* Path.cwd()
Cwd == <<"/", "w">>

\* Path.is_absolute()
IsAbsolute(path) == path # <<>> /\ path[1] = "/"

\* lines 178-186: resolved_attachment_path
ResolvedAttachmentPath(page, attachment_path) ==
    IF IsAbsolute(attachment_path) THEN attachment_path
    ELSE IF page.file_path # None
    THEN Parent(Get(page.file_path)) \o attachment_path
    ELSE Cwd \o attachment_path

\* line 170 with the id of the page left unexamined
ValidExistingPageAnyId(existing_page) == existing_page # None

\* line 170: existing_page and getattr(existing_page, "id", None)
ValidExistingPage(existing_page) ==
    existing_page # None /\ Get(existing_page).id # None

\* lines 194-202 with the fingerprint left out of the message
ComposeAttachmentMessagePlain(message, only_changed, hash) == message

\* lines 194-202: attachment_message
ComposeAttachmentMessage(message, only_changed, hash) ==
    IF ~only_changed THEN message
    ELSE IF message # <<>> THEN message \o <<" ", "[", "v">> \o Get(hash) \o <<"]">>
    ELSE <<"[", "v">> \o Get(hash) \o <<"]">>

\* MinimalConfluence.get_attachment(page, filename), None when not found
GetAttachment(att, filename) ==
    LET hits == {i \in 1..Len(att) : att[i].title = filename}
    IN IF hits = {} THEN None
       ELSE Some(att[CHOOSE i \in hits : \A j \in hits : i <= j])

\* MinimalConfluence.create_attachment: the store with the new attachment
CreateAttachment(att, filename, bytes, message) ==
    Append(att, [id |-> Len(att) + 1, title |-> filename, data |-> bytes,
                 message |-> message])

\* MinimalConfluence.update_attachment: new data and revision message
UpdateAttachment(att, existing_attachment, bytes, message) ==
    [att EXCEPT ![existing_attachment.id] =
        [@ EXCEPT !.data = bytes, !.message = message]]

\* upsert_attachment(confluence, page, existing_page, attachment_path,
\* message, only_changed) with the file system fs.  The result is
\* [action, response, store, calls].
UpsertAttachment(att, fs, page, existing_page, attachment_path, message, only_changed) ==
    LET resolved_attachment_path == ResolvedAttachmentPath(page, attachment_path)
        exists == /\ resolved_attachment_path \in DOMAIN fs
                  /\ fs[resolved_attachment_path] # None
        bytes == IF exists THEN Get(fs[resolved_attachment_path]) ELSE ""
        attachment_filename == resolved_attachment_path[Len(resolved_attachment_path)]
        new_attachment_hash == IF only_changed THEN Some(GetFileSha1(bytes)) ELSE None
        attachment_message ==
            ComposeAttachmentMessage(message, only_changed, new_attachment_hash)
        confluence_existing_attachment == GetAttachment(att, attachment_filename)
        existing_attachment_hash_match ==
            ContentHashSearch(Get(confluence_existing_attachment).message)
        should_update ==
            ~(/\ only_changed
              /\ new_attachment_hash # None
              /\ existing_attachment_hash_match # None
              /\ Get(existing_attachment_hash_match) = Get(new_attachment_hash))
    IN IF ~ValidExistingPage(existing_page)
       THEN \* line 174
            [action |-> "SKIPPED", response |-> None, store |-> att, calls |-> <<>>]
       ELSE IF ~exists
       THEN \* line 190
            [action |-> "SKIPPED", response |-> None, store |-> att, calls |-> <<>>]
       ELSE IF confluence_existing_attachment = None
       THEN LET store1 == CreateAttachment(att, attachment_filename, bytes,
                                           attachment_message)
            IN [action |-> "CREATED", response |-> Some(store1[Len(store1)]),
                store |-> store1,
                calls |-> <<"get_attachment", "create_attachment">>]
       ELSE IF should_update
       THEN LET store1 == UpdateAttachment(att, Get(confluence_existing_attachment),
                                           bytes, attachment_message)
            IN [action |-> "UPDATED",
                response |-> Some(store1[Get(confluence_existing_attachment).id]),
                store |-> store1,
                calls |-> <<"get_attachment", "update_attachment">>]
       ELSE [action |-> "SKIPPED", response |-> confluence_existing_attachment,
             store |-> att, calls |-> <<"get_attachment">>]

\* the attachment paths handed to upsert_attachment: absolute and relative
AttachmentPaths == {<<"/", "a.png">>, <<"a.png">>}

\* the files these paths resolve to for a page
AttachmentFiles(page) ==
    {ResolvedAttachmentPath(page, attachment_path) :
        attachment_path \in AttachmentPaths}

\* one call of upsert_attachment for one of the attachment paths
UpsertAttachmentNext ==
    /\ aopts.calls > 0
    /\ Len(aresults) < aopts.calls
    /\ \E attachment_path \in AttachmentPaths :
          LET resolved == ResolvedAttachmentPath(aopts.page, attachment_path)
              r == UpsertAttachment(attached, files, aopts.page,
                                    aopts.existing_page, attachment_path,
                                    aopts.message, aopts.only_changed)
          IN /\ attached' = r.store
             /\ aresults' = Append(aresults,
                    [path |-> attachment_path, resolved |-> resolved,
                     action |-> r.action, response |-> r.response,
                     calls |-> r.calls,
                     file |-> files[resolved],
                     held |-> GetAttachment(attached, resolved[Len(resolved)]),
                     wrote |-> r.store # attached])
    /\ UNCHANGED <<files, aopts>>
    /\ UNCHANGED <<walkVars, processed_pages, upsertVars, docVars, gitVars, msgVars>>

\* the environment: an attachment file is written, rewritten or removed
\* between two calls
WriteFile ==
    /\ aopts.calls > 0
    /\ Len(aresults) < aopts.calls
    /\ \E path \in DOMAIN files, content \in {None} \cup {Some(b) : b \in FileBytes} :
          /\ files[path] # content
          /\ files' = [files EXCEPT ![path] = content]
    /\ UNCHANGED <<attached, aopts, aresults>>
    /\ UNCHANGED <<walkVars, processed_pages, upsertVars, docVars, gitVars, msgVars>>

AOptions(page, existing_page, message, only_changed, calls) ==
    [page |-> page, existing_page |-> existing_page, message |-> message,
     only_changed |-> only_changed, calls |-> calls]

\* no attachment is reconciled
NoAttachments ==
    /\ files = <<>>
    /\ attached = <<>>
    /\ aopts = AOptions(Page(None, "", None, None, None, None), None, <<>>, FALSE, 0)
    /\ aresults = <<>>

-----------------------------------------------------------------------------
(* Documents: frontmatter and the page builders.  A document is the list   *)
(* of its lines as readlines() gives them; a YAML value is [type, value].  *)

\* the lines a document of the model is made of; every one ends with a
\* newline
Lines ==
    {"---\n", "\n", "# H\n", "text\n", "title: T\n", "labels: [l1]\n",
     "labels: abc\n", "a: b: c\n", "a: [\n"}

\* a frontmatter line whose title is the empty string
EmptyTitleLine == "title: \"\"\n"

\* the key and the value of a line that is a YAML mapping entry
YamlKey(line) ==
    IF line \in {"title: T\n", EmptyTitleLine} THEN "title" ELSE "labels"
YamlValue(line) ==
    IF line = "title: T\n" THEN [type |-> "str", value |-> <<"T">>]
    ELSE IF line = EmptyTitleLine THEN [type |-> "str", value |-> <<>>]
    ELSE IF line = "labels: [l1]\n" THEN [type |-> "list", value |-> <<"l1">>]
    ELSE [type |-> "str", value |-> <<"a", "b", "c">>]

\* yaml.safe_load of a block of lines, read line by line.  st is what has
\* been read so far: nothing ("start"), mapping entries ("map"), a plain
\* scalar ("scalar"), a plain scalar closed by a comment ("ended"), an open
\* flow sequence ("flow").  The result is [raised, is_dict, data].
RECURSIVE YamlLoad(_, _, _)
YamlLoad(block, st, data) ==
    IF block = <<>>
    THEN IF st = "flow"
         THEN [raised |-> "ParserError", is_dict |-> FALSE, data |-> <<>>]
         ELSE [raised |-> "", is_dict |-> st = "map", data |-> data]
    ELSE LET line == Head(block)
             rest == Tail(block)
         IN IF st = "flow" \/ line = "\n" THEN YamlLoad(rest, st, data)
            ELSE IF line = "# H\n"
            THEN YamlLoad(rest, IF st = "scalar" THEN "ended" ELSE st, data)
            ELSE IF st = "ended"
            THEN [raised |-> "ParserError", is_dict |-> FALSE, data |-> <<>>]
            ELSE IF line = "a: b: c\n"
            THEN [raised |-> "ScannerError", is_dict |-> FALSE, data |-> <<>>]
            ELSE IF line = "text\n"
            THEN IF st = "map"
                 THEN [raised |-> "ScannerError", is_dict |-> FALSE, data |-> <<>>]
                 ELSE YamlLoad(rest, "scalar", data)
            ELSE IF st = "scalar"
            THEN [raised |-> "ScannerError", is_dict |-> FALSE, data |-> <<>>]
            ELSE IF line = "a: [\n" THEN YamlLoad(rest, "flow", data)
            ELSE YamlLoad(rest, "map", Put(data, YamlKey(line), YamlValue(line)))

\* yaml.safe_load(frontmatter_yaml)
SafeLoad(frontmatter_yaml) == YamlLoad(frontmatter_yaml, "start", <<>>)

\* line 581: except ParserError
Caught(error) == error = "ParserError"

\* get_document_frontmatter(markdown_lines).  The result is
\* [raised, frontmatter]: the exception that leaves the function ("" when
\* none) and the dict returned, the empty dict being the empty function.
GetDocumentFrontmatter(lines) ==
    LET starts == lines # <<>> /\ lines[1] = "---\n"
        \* enumerate(markdown_lines[1:]): the first index whose line is the marker
        closing == {index \in 0..(Len(lines) - 2) : lines[index + 2] = "---\n"}
        closed == starts /\ closing # {}
        index == CHOOSE i \in closing : \A j \in closing : i <= j
        frontmatter_end_line == IF closed THEN index + 2 ELSE 0
        frontmatter_yaml ==
            IF ~starts THEN <<>>
            ELSE IF closed THEN SubSeq(lines, 2, index + 1)
            ELSE SubSeq(lines, 2, Len(lines))
        loads == frontmatter_yaml # <<>> /\ frontmatter_end_line # 0
        loaded == SafeLoad(frontmatter_yaml)
    IN IF loads /\ loaded.raised # "" /\ ~Caught(loaded.raised)
       THEN [raised |-> loaded.raised, frontmatter |-> <<>>]
       ELSE IF loads /\ loaded.raised = "" /\ loaded.is_dict
       THEN [raised |-> "",
             frontmatter |->
                 Put(loaded.data, "frontmatter_end_line",
                     [type |-> "int", value |-> frontmatter_end_line])]
       ELSE [raised |-> "", frontmatter |-> <<>>]

\* lines 384-390 and 519-520: the lines left for the renderer
LinesForRendering(lines, frontmatter) ==
    IF "frontmatter_end_line" \in DOMAIN frontmatter
    THEN SubSeq(lines, frontmatter["frontmatter_end_line"].value + 1, Len(lines))
    ELSE lines

\* the markdown renderer, an opaque function of the text: the title is that
\* of a heading line, the body stands for the text rendered
Render(lines) ==
    [title |-> IF \E i \in 1..Len(lines) : lines[i] = "# H\n"
               THEN Some(<<"H">>) ELSE None,
     body |-> lines]

\* parse_page(markdown_lines)
ParsePage(lines) ==
    LET rendered == Render(lines)
    IN Page(rendered.title, rendered.body, None, None, None, Some(<<>>))

\* lines 532-538: the labels field makes get_page_data_from_lines raise
LabelsRaise(frontmatter) ==
    "labels" \in DOMAIN frontmatter /\ frontmatter["labels"].type # "list"

\* get_page_data_from_lines(markdown_lines).  The result is [raised, page].
GetPageDataFromLines(lines) ==
    LET fm == GetDocumentFrontmatter(lines)
        frontmatter == fm.frontmatter
        page == ParsePage(LinesForRendering(lines, frontmatter))
        page1 == IF "title" \in DOMAIN frontmatter
                 THEN [page EXCEPT !.title = Some(frontmatter["title"].value)]
                 ELSE page
    IN IF fm.raised # "" THEN [raised |-> fm.raised, page |-> None]
       ELSE IF LabelsRaise(frontmatter)
       THEN [raised |-> "TypeError", page |-> None]
       ELSE [raised |-> "",
             page |-> Some(IF "labels" \in DOMAIN frontmatter
                           THEN [page1 EXCEPT !.labels =
                                     Some(frontmatter["labels"].value)]
                           ELSE page1)]

\* lines 381-423 of get_page_data_from_file_path: what the lines of the file
\* `name` hold in their frontmatter and what the rest renders to
DocOfLines(name, lines) ==
    LET frontmatter == GetDocumentFrontmatter(lines).frontmatter
        rendered == Render(LinesForRendering(lines, frontmatter))
    IN [name |-> name, readable |-> TRUE,
        fm_title |-> IF "title" \in DOMAIN frontmatter
                     THEN Some(frontmatter["title"].value) ELSE None,
        rendered_title |-> rendered.title,
        body |-> rendered.body,
        labels |-> IF "labels" \in DOMAIN frontmatter
                   THEN Some(frontmatter["labels"].value) ELSE None,
        labels_is_list |-> "labels" \in DOMAIN frontmatter =>
                               frontmatter["labels"].type = "list",
        attachments |-> <<>>]

\* no call has been made on the document
NotCalled == [fn |-> "", raised |-> "", value |-> <<>>]

\* get_document_frontmatter is called on the lines
GetDocumentFrontmatterCall ==
    /\ built = NotCalled
    /\ LET fm == GetDocumentFrontmatter(markdown_lines)
       IN built' = [fn |-> "get_document_frontmatter", raised |-> fm.raised,
                    value |-> fm.frontmatter]
    /\ UNCHANGED <<markdown_lines, walkVars, processed_pages, upsertVars, attachVars, gitVars, msgVars>>

\* get_page_data_from_lines is called on the lines
GetPageDataFromLinesCall ==
    /\ built = NotCalled
    /\ LET r == GetPageDataFromLines(markdown_lines)
       IN built' = [fn |-> "get_page_data_from_lines", raised |-> r.raised,
                    value |-> r.page]
    /\ UNCHANGED <<markdown_lines, walkVars, processed_pages, upsertVars, attachVars, gitVars, msgVars>>

\* get_page_data_from_file_path is called on the file p.md holding the lines
GetPageDataFromFilePathCall ==
    /\ built = NotCalled
    /\ LET fm == GetDocumentFrontmatter(markdown_lines)
       IN built' = [fn |-> "get_page_data_from_file_path", raised |-> fm.raised,
                    value |-> IF fm.raised # "" THEN None
                              ELSE GetPageDataFromFilePath(
                                       base_path,
                                       DocOfLines(<<"p">>, markdown_lines))]
    /\ UNCHANGED <<markdown_lines, walkVars, processed_pages, upsertVars, attachVars, gitVars, msgVars>>

\* no document is built
NoDocument ==
    /\ markdown_lines = <<>>
    /\ built = NotCalled

-----------------------------------------------------------------------------
(* Ignore files (md2cf/ignored_files.py).  Paths are absolute: the         *)
(* sequence of their names below the file system root, which is the empty  *)
(* sequence.  Every directory holds one file; a .mdignore file holds one   *)
(* pattern, a name.                                                        *)

\* Path("/")
fs_root == <<>>

\* the directories of the file system
FsDirs == {fs_root, <<"w">>, <<"w", "r">>, <<"w", "r", "s">>, <<"w", "t">>}

\* the files: one in every directory
FsFiles == {d \o <<"f">> : d \in FsDirs}

FsPaths == FsDirs \cup FsFiles

\* Path.is_file
IsFile(path) == path \in FsFiles

\* the paths a GitRepository is constructed on: the directories and a file
StartPaths == FsDirs \cup {<<"w", "r", "f">>}

\* the directory a search starts in (lines 33-35 and 69-71)
OwnDirectory(path) == IF IsFile(path) THEN Parent(path) ELSE path

\* lines 36-40: the loop of _find_root_dir, at directory p
RECURSIVE FindRootFrom(_, _)
FindRootFrom(d, p) ==
    IF p = fs_root THEN None
    ELSE IF d.git[p] = "dir" THEN Some(p)
    ELSE FindRootFrom(d, Parent(p))

\* GitRepository._find_root_dir(start_path)
FindRootDir(d, start_path) == FindRootFrom(d, OwnDirectory(start_path))

\* GitRepository(repo_path, use_mdignore)
GitRepository(d, repo_path, use_mdignore) ==
    [repo_path |-> repo_path,
     use_mdignore |-> use_mdignore,
     root_dir |-> IF use_mdignore THEN FindRootDir(d, repo_path) ELSE None]

\* lines 72-78: the loop of collect_mdignores, at directory p, ret being
\* the directories whose .mdignore has been collected so far
RECURSIVE CollectFrom(_, _, _, _)
CollectFrom(self, d, p, ret) ==
    IF p = fs_root THEN <<>>
    ELSE LET ret1 == IF d.mdignore[p] # None THEN Append(ret, p) ELSE ret
         IN IF Some(p) = self.root_dir THEN ret1
            ELSE CollectFrom(self, d, Parent(p), ret1)

\* GitRepository.collect_mdignores(filepath): the directories of the
\* .mdignore files, in the order collected
CollectMdignores(self, d, filepath) ==
    CollectFrom(self, d, OwnDirectory(filepath), <<>>)

\* the names of path below directory base
Below(base, path) == SubSeq(path, Len(base) + 1, Len(path))

\* gitignorefile.parse(base/.mdignore)(path) for a file holding the one
\* pattern: a path below the file's directory with that name in it
Matches(pattern, base, path) ==
    /\ IsPrefix(base, path)
    /\ \E i \in 1..Len(Below(base, path)) : Below(base, path)[i] = pattern

\* every collected file has to match
IsIgnoredAll(self, d, filepath) ==
    IF ~self.use_mdignore THEN FALSE
    ELSE IF self.root_dir = None THEN FALSE
    ELSE LET mdignores == CollectMdignores(self, d, filepath)
         IN \A i \in 1..Len(mdignores) :
                Matches(Get(d.mdignore[mdignores[i]]), mdignores[i], filepath)

\* GitRepository.is_ignored(filepath)
IsIgnored(self, d, filepath) ==
    IF ~self.use_mdignore THEN FALSE
    ELSE IF self.root_dir = None THEN FALSE
    ELSE LET mdignores == CollectMdignores(self, d, filepath)
         IN \E i \in 1..Len(mdignores) :
                Matches(Get(d.mdignore[mdignores[i]]), mdignores[i], filepath)

\* GitRepository(repo_path, use_mdignore) is constructed
GitRepositoryInit ==
    /\ git_repo = None
    /\ \E repo_path \in StartPaths, use_mdignore \in BOOLEAN :
           git_repo' = Some(GitRepository(disk, repo_path, use_mdignore))
    /\ UNCHANGED <<disk, answer>>
    /\ UNCHANGED <<walkVars, processed_pages, upsertVars, attachVars, docVars, msgVars>>

\* is_ignored is called on a path
IsIgnoredCall ==
    /\ git_repo # None
    /\ answer = None
    /\ \E filepath \in FsPaths :
           answer' =
               Some([filepath |-> filepath,
                     mdignores |->
                         IF Get(git_repo).root_dir = None THEN <<>>
                         ELSE CollectMdignores(Get(git_repo), disk, filepath),
                     result |-> IsIgnored(Get(git_repo), disk, filepath)])
    /\ UNCHANGED <<disk, git_repo>>
    /\ UNCHANGED <<walkVars, processed_pages, upsertVars, attachVars, docVars, msgVars>>

\* the fingerprint upsert_page (line 80) and upsert_attachment (line 197)
\* put into the message
FingerprintOf(c) ==
    IF c.fn = "upsert_page" THEN Sha1(c.content) ELSE GetFileSha1(c.content)

\* lines 78-83 of upsert_page, lines 194-202 of upsert_attachment: the
\* message is composed
ComposeCall ==
    /\ composing # None
    /\ composed = None
    /\ LET c == Get(composing)
       IN composed' =
              Some(IF c.fn = "upsert_page"
                   THEN ComposeMessage(c.message, c.only_changed, FingerprintOf(c))
                   ELSE ComposeAttachmentMessage(
                            c.message, c.only_changed,
                            IF c.only_changed THEN Some(FingerprintOf(c)) ELSE None))
    /\ UNCHANGED <<composing, recovered>>
    /\ UNCHANGED <<walkVars, processed_pages, upsertVars, attachVars, docVars, gitVars>>

\* lines 147-153 and 210-215 on a later call: the fingerprint is looked for
\* in the message the store kept
SearchCall ==
    /\ composed # None
    /\ recovered = None
    /\ recovered' = Some(ContentHashSearch(Get(composed)))
    /\ UNCHANGED <<composing, composed>>
    /\ UNCHANGED <<walkVars, processed_pages, upsertVars, attachVars, docVars, gitVars>>

\* no message is composed
NoMessages ==
    /\ composing = None
    /\ composed = None
    /\ recovered = None

\* no ignore file is looked for
NoGit ==
    /\ disk = [git |-> <<>>, mdignore |-> <<>>]
    /\ git_repo = None
    /\ answer = None

-----------------------------------------------------------------------------
(* The inputs: directory trees and options. *)

\* the sets of directories of the trees: the start directory and, one at a
\* time, a subdirectory of a directory already there
RECURSIVE Shapes(_)
Shapes(k) ==
    IF k <= 1 THEN {{base_path}}
    ELSE LET smaller == Shapes(k - 1)
         IN smaller \cup
            UNION {{S \cup {Append(p, n)} :
                        p \in {q \in S : Len(q) < MaxDepth}, n \in DirNames} :
                   S \in smaller}

Doc(name, readable, fm_title, rendered_title, body, labels, attachments) ==
    [name |-> name, readable |-> readable, fm_title |-> fm_title,
     rendered_title |-> rendered_title, body |-> body, labels |-> labels,
     labels_is_list |-> TRUE, attachments |-> attachments]

\* p.md: no title of its own, so titled by its file name
DocP == Doc(<<"p">>, TRUE, None, None, "body-p", None, <<>>)
\* q.md: a heading that the renderer takes as title, labels, an attachment
DocQ == Doc(<<"q">>, TRUE, None, Some(<<"Q", "t">>), "body-q",
            Some(<<"l1">>), <<"img.png">>)
\* p.md that cannot be read or decoded
DocUnreadable == Doc(<<"p">>, FALSE, None, None, "", None, <<>>)

\* the documents of one directory
DocSets == {{}, {DocP}, {DocP, DocQ}, {DocUnreadable}}

Dir(docs, pages_file, pages_title, content, content_ignored, ignored) ==
    [docs |-> docs, pages_file |-> pages_file, pages_title |-> pages_title,
     content |-> content, content_ignored |-> content_ignored,
     ignored |-> ignored]

\* directories holding documents only
PlainDirs == {Dir(docs, FALSE, None, None, FALSE, FALSE) : docs \in DocSets}

Options(csp, se, ce, bf, upf) ==
    [collapse_single_pages |-> csp, skip_empty |-> se, collapse_empty |-> ce,
     beautify_folders |-> bf, use_pages_file |-> upf]

Trees(DirSet) == UNION {[S -> DirSet] : S \in Shapes(MaxDirs)}

UOptions(message, only_changed, replace_all_labels, runs) ==
    [message |-> message, only_changed |-> only_changed,
     replace_all_labels |-> replace_all_labels, runs |-> runs]

\* the walk alone: no reconciliation follows
NoRuns == UOptions(<<>>, FALSE, FALSE, 0)

InitWalk(TreeSet, OptionSet, UOptionSet) ==
    /\ tree \in TreeSet
    /\ opts \in OptionSet
    /\ uopts \in UOptionSet
    /\ remote = <<>>
    /\ run = 1
    /\ cursor = 1
    /\ results = <<>>
    /\ todo \in {WalkOrder(tree, base_path, rev) : rev \in BOOLEAN}
    /\ folder_data = <<>>
    /\ processed_pages = <<>>
    /\ origin = <<>>
    /\ pc = "walk"
    /\ raised = ""
    /\ NoAttachments
    /\ NoDocument
    /\ NoGit
    /\ NoMessages

NextWalk == WalkDirectory \/ WalkReturn

\* get_pages_from_directory over trees that hold documents only, under one
\* choice of the folding options
SpecDefault ==
    InitWalk(Trees(PlainDirs), {Options(FALSE, FALSE, FALSE, FALSE, FALSE)}, {NoRuns})
        /\ [][NextWalk]_vars

SpecCollapseSingle ==
    InitWalk(Trees(PlainDirs), {Options(TRUE, FALSE, FALSE, FALSE, FALSE)}, {NoRuns})
        /\ [][NextWalk]_vars

SpecSkipEmpty ==
    InitWalk(Trees(PlainDirs), {Options(FALSE, TRUE, FALSE, FALSE, FALSE)}, {NoRuns})
        /\ [][NextWalk]_vars

SpecCollapseEmpty ==
    InitWalk(Trees(PlainDirs), {Options(FALSE, se, TRUE, FALSE, FALSE) : se \in BOOLEAN}, {NoRuns})
        /\ [][NextWalk]_vars

SpecBeautify ==
    InitWalk(Trees(PlainDirs), {Options(FALSE, FALSE, FALSE, TRUE, FALSE)}, {NoRuns})
        /\ [][NextWalk]_vars

\* collapse_empty and beautify_folders together
SpecCollapseBeautify ==
    InitWalk(Trees(PlainDirs), {Options(FALSE, FALSE, TRUE, TRUE, FALSE)}, {NoRuns})
        /\ [][NextWalk]_vars

\* _<dirname>.md: a directory-content file with a heading, labels and an
\* attachment (its name is set from the directory that holds it)
DocC == Doc(<<"_">>, TRUE, None, Some(<<"C", "t">>), "body-c",
            Some(<<"lc">>), <<"c.png">>)

\* the title of the .pages files of the model
PagesTitle == <<"F", "o">>

\* directories with or without a document, a .pages file (with or without
\* a title key) and a directory-content file
OverrideDirs ==
    {Dir(docs, pf[1], pf[2], content, FALSE, FALSE) :
        docs \in {{}, {DocP}},
        pf \in {<<FALSE, None>>, <<TRUE, None>>, <<TRUE, Some(PagesTitle)>>},
        content \in {None, Some(DocC)}}

\* trees of one directory fewer, for the directories with more in them
SmallTrees(DirSet) == UNION {[S -> DirSet] : S \in Shapes(MaxDirs - 1)}

\* get_pages_from_directory over trees with .pages and directory-content
\* files, with and without use_pages_file, the folding options off
SpecOverrides ==
    InitWalk(SmallTrees(OverrideDirs),
             {Options(FALSE, FALSE, FALSE, FALSE, upf) : upf \in BOOLEAN},
             {NoRuns})
        /\ [][NextWalk]_vars

\* the walk, then one reconciliation run of the returned list, in list
\* order, against a remote store that starts empty
NextSync == WalkDirectory \/ WalkReturn \/ UpsertNext

SpecSync ==
    InitWalk(SmallTrees(OverrideDirs),
             {Options(FALSE, se, FALSE, FALSE, TRUE) : se \in BOOLEAN},
             {UOptions(<<"m">>, TRUE, FALSE, 1)})
        /\ [][NextSync]_vars

-----------------------------------------------------------------------------
(* The inputs of upsert_page alone: one page, a remote store, the options. *)

\* the title of the page that is upserted, of its parent, of another page
TitleT == <<"T">>
TitleP == <<"P">>
TitleO == <<"O">>

RemotePage(id, title, ancestors, message, labels) ==
    [id |-> id, title |-> title, body |-> "body-q", ancestors |-> ancestors,
     message |-> message, labels |-> labels]

\* the revision messages a remote page can carry: none, free text, the
\* fingerprint of either body alone or after text, a fingerprint followed by
\* text, a fingerprint followed by a newline
RemoteMessages ==
    {<<>>, <<"m">>,
     ComposeMessage(<<>>, TRUE, Sha1("body-p")),
     ComposeMessage(<<"m">>, TRUE, Sha1("body-q")),
     ComposeMessage(<<"m">>, TRUE, Sha1("body-p")) \o <<" ", "x">>,
     ComposeMessage(<<>>, TRUE, Sha1("body-p")) \o <<"\n">>}

RemoteLabels == {<<>>, <<"l1", "l2">>, <<"l3">>}

\* the pages the store holds besides the upserted one
BaseStores ==
    {<<>>,
     <<RemotePage(1, TitleP, <<>>, <<>>, <<>>)>>,
     <<RemotePage(1, TitleP, <<>>, <<>>, <<>>),
       RemotePage(2, TitleO, <<>>, <<>>, <<>>)>>}

Stores ==
    BaseStores \cup
    {Append(b, RemotePage(Len(b) + 1, TitleT, anc, msg, ls)) :
        b \in BaseStores,
        anc \in {<<>>, <<1>>, <<2>>},
        msg \in RemoteMessages,
        ls \in RemoteLabels}

\* the page objects handed to upsert_page
UpsertPages ==
    {[Page(Some(TitleT), "body-p", None, parent_title, labels, None)
          EXCEPT !.parent_id = parent_id] :
        parent_title \in {None, Some(TitleP)},
        parent_id \in {None, Some(1), Some(2)},
        labels \in {None, Some(<<>>), Some(<<"l1">>), Some(<<"l2", "l1">>)}}

\* the base messages: empty, text, text that itself ends with a token
BaseMessages == {<<>>, <<"m">>, ComposeMessage(<<>>, TRUE, Sha1("body-q"))}

InitUpsert ==
    /\ tree = [p \in {base_path} |-> Dir({}, FALSE, None, None, FALSE, FALSE)]
    /\ opts = Options(FALSE, FALSE, FALSE, FALSE, FALSE)
    /\ todo = <<>>
    /\ folder_data = <<>>
    /\ processed_pages \in {<<page>> : page \in UpsertPages}
    /\ origin = <<base_path>>
    /\ pc = "returned"
    /\ raised = ""
    /\ remote \in {st \in Stores :
                      \A i \in 1..Len(st) :
                          \A k \in 1..Len(st[i].ancestors) :
                              st[i].ancestors[k] \in 1..Len(st)}
    /\ uopts \in {UOptions(message, oc, ral, MaxRuns) :
                     message \in BaseMessages, oc \in BOOLEAN, ral \in BOOLEAN}
    /\ run = 1
    /\ cursor = 1
    /\ results = <<>>
    /\ NoAttachments
    /\ NoDocument
    /\ NoGit
    /\ NoMessages

\* upsert_page called MaxRuns times in a row for the same page object
SpecUpsert == InitUpsert /\ [][UpsertNext]_vars

-----------------------------------------------------------------------------
(* The inputs of upsert_attachment, of the page builders, and the trees    *)
(* with files that cannot be read.                                         *)

\* no walk is made
NoWalk ==
    /\ tree = [p \in {base_path} |-> Dir({}, FALSE, None, None, FALSE, FALSE)]
    /\ opts = Options(FALSE, FALSE, FALSE, FALSE, FALSE)
    /\ todo = <<>>
    /\ folder_data = <<>>
    /\ processed_pages = <<>>
    /\ origin = <<>>
    /\ pc = "returned"
    /\ raised = ""

\* no page is reconciled
NoUpsert ==
    /\ remote = <<>>
    /\ uopts = NoRuns
    /\ run = 1
    /\ cursor = 1
    /\ results = <<>>

\* the source file of the page that owns the attachments
DocPath == <<"/", "d", "p.md">>

\* the page objects handed to upsert_attachment: with and without a source
AttachmentPages ==
    {Page(Some(TitleT), "body-p", file_path, None, None, None) :
        file_path \in {None, Some(DocPath)}}

\* the remote page handed to upsert_attachment: missing, without id, valid
ExistingPages == {None, Some([id |-> None]), Some([id |-> Some(1)])}

\* the attachment a.png as the remote store holds it
RemoteAttachment(message) ==
    [id |-> 1, title |-> "a.png", data |-> "bytes-1", message |-> message]

\* the attachments of the remote page before the first call: none, or a.png
\* under free text, under the fingerprint of bytes-1, under that
\* fingerprint followed by text
AttachedStores ==
    {<<>>} \cup
    {<<RemoteAttachment(message)>> :
        message \in {<<"m">>,
                     ComposeAttachmentMessage(<<>>, TRUE, Some(GetFileSha1("bytes-1"))),
                     ComposeAttachmentMessage(<<>>, TRUE, Some(GetFileSha1("bytes-1")))
                         \o <<" ", "x">>}}

InitAttach ==
    /\ NoWalk
    /\ NoUpsert
    /\ NoDocument
    /\ NoGit
    /\ NoMessages
    /\ aopts \in {AOptions(page, existing_page, message, only_changed, MaxCalls) :
                     page \in AttachmentPages,
                     existing_page \in ExistingPages,
                     message \in {<<>>, <<"m">>},
                     only_changed \in BOOLEAN}
    /\ files = [path \in AttachmentFiles(aopts.page) |-> None]
    /\ attached \in AttachedStores
    /\ aresults = <<>>

NextAttach == UpsertAttachmentNext \/ WriteFile

\* upsert_attachment called MaxCalls times for the attachments of one page,
\* the files changing in between
SpecAttach == InitAttach /\ [][NextAttach]_vars

\* the documents: up to MaxLines lines, the last one with or without its
\* newline
Documents ==
    UNION {{d \in [1..n -> Lines \cup {"---"}] :
                \A i \in 1..(n - 1) : d[i] # "---"} : n \in 0..MaxLines}

InitDocument ==
    /\ NoWalk
    /\ NoUpsert
    /\ NoAttachments
    /\ NoGit
    /\ NoMessages
    /\ markdown_lines \in Documents
    /\ built = NotCalled

NextDocument ==
    \/ GetDocumentFrontmatterCall
    \/ GetPageDataFromLinesCall
    \/ GetPageDataFromFilePathCall

\* one of the three functions called on one document
SpecDocument == InitDocument /\ [][NextDocument]_vars

\* _<dirname>.md that cannot be read or decoded
DocCUnreadable == Doc(<<"_">>, FALSE, None, None, "", None, <<>>)

\* directories whose documents and directory-content file can or cannot be
\* read
UnreadableDirs ==
    {Dir(docs, FALSE, None, content, FALSE, FALSE) :
        docs \in {{}, {DocP}, {DocUnreadable}, {DocUnreadable, DocQ}},
        content \in {None, Some(DocC), Some(DocCUnreadable)}}

\* get_pages_from_directory over these trees, every option off
SpecUnreadable ==
    InitWalk(SmallTrees(UnreadableDirs),
             {Options(FALSE, FALSE, FALSE, FALSE, FALSE)}, {NoRuns})
        /\ [][NextWalk]_vars

\* the documents whose frontmatter title is set, empty or absent and whose
\* text has a heading or none
TitleLines == {"---\n", "# H\n", "text\n", "title: T\n", EmptyTitleLine}

TitleDocuments == UNION {[1..n -> TitleLines] : n \in 0..MaxLines}

InitTitles ==
    /\ NoWalk
    /\ NoUpsert
    /\ NoAttachments
    /\ NoGit
    /\ NoMessages
    /\ markdown_lines \in TitleDocuments
    /\ built = NotCalled

\* one of the three functions called on one of these documents
SpecTitles == InitTitles /\ [][NextDocument]_vars

\* directories with or without a document and a directory-content file
ContentDirs ==
    {Dir(docs, FALSE, None, content, FALSE, FALSE) :
        docs \in {{}, {DocP}}, content \in {None, Some(DocC)}}

\* get_pages_from_directory over these trees with skip_empty alone
SpecSkipEmptyContent ==
    InitWalk(Trees(ContentDirs), {Options(FALSE, TRUE, FALSE, FALSE, FALSE)}, {NoRuns})
        /\ [][NextWalk]_vars

\* the base messages: empty, text, a token, a token inside text, a token
\* followed by a newline, a token of fewer digits
ComposeBases ==
    {<<>>, <<"m">>,
     ComposeMessage(<<>>, TRUE, Sha1("body-q")),
     ComposeMessage(<<"m">>, TRUE, Sha1("body-p")) \o <<" ", "x">>,
     ComposeMessage(<<>>, TRUE, GetFileSha1("bytes-2")) \o <<"\n">>,
     <<"[", "v", "0", "b", "]">>}

\* the page bodies and the file contents that are fingerprinted
ComposeContents ==
    {<<"upsert_page", body>> : body \in {"", "body-p", "body-q", "body-c"}}
        \cup {<<"upsert_attachment", bytes>> : bytes \in FileBytes}

InitMessages ==
    /\ NoWalk
    /\ NoUpsert
    /\ NoAttachments
    /\ NoDocument
    /\ NoGit
    /\ composing \in {Some([fn |-> fc[1], content |-> fc[2], message |-> message,
                            only_changed |-> only_changed]) :
                          fc \in ComposeContents, message \in ComposeBases,
                          only_changed \in BOOLEAN}
    /\ composed = None
    /\ recovered = None

NextMessages == ComposeCall \/ SearchCall

\* a revision message composed, then searched for its fingerprint
SpecMessages == InitMessages /\ [][NextMessages]_vars

\* upsert_page called on a page, or upsert_attachment on the attachments of
\* a page, with only_changed=False
InitUnconditional ==
    \/ InitUpsert /\ ~uopts.only_changed
    \/ InitAttach /\ ~aopts.only_changed

NextUnconditional == UpsertNext \/ UpsertAttachmentNext \/ WriteFile

SpecUnconditional == InitUnconditional /\ [][NextUnconditional]_vars

\* directories with or without a document, ignored or not
IgnoredDirs ==
    {Dir(docs, FALSE, None, None, FALSE, ignored) :
        docs \in {{}, {DocP}}, ignored \in BOOLEAN}

\* every combination of the folding options
FoldingOptions ==
    {Options(csp, se, ce, bf, FALSE) :
        csp \in BOOLEAN, se \in BOOLEAN, ce \in BOOLEAN, bf \in BOOLEAN}

\* get_pages_from_directory over trees with ignored directories, under
\* every combination of the folding options
SpecIgnored ==
    InitWalk(SmallTrees(IgnoredDirs), FoldingOptions, {NoRuns})
        /\ [][NextWalk]_vars

\* the file systems: at most MaxGit directories hold a .git, a directory or
\* a file, and at most MaxMdignore hold a .mdignore file
Holders(k) == {h \in SUBSET FsDirs : Cardinality(h) <= k}

Disks ==
    {[git |-> git, mdignore |-> mdignore] :
        git \in UNION {{[p \in FsDirs |-> IF p \in h THEN kind[p] ELSE "none"] :
                           kind \in [h -> {"dir", "file"}]} : h \in Holders(MaxGit)},
        mdignore \in UNION {{[p \in FsDirs |-> IF p \in h THEN Some(pattern[p]) ELSE None] :
                                pattern \in [h -> {"f", "s"}]} : h \in Holders(MaxMdignore)}}

InitGit ==
    /\ NoWalk
    /\ NoUpsert
    /\ NoAttachments
    /\ NoDocument
    /\ NoMessages
    /\ disk \in Disks
    /\ git_repo = None
    /\ answer = None

NextGit ==
    \/ GitRepositoryInit
    \/ IsIgnoredCall

\* a GitRepository constructed on a file system and asked about one path
SpecGit == InitGit /\ [][NextGit]_vars

-----------------------------------------------------------------------------
(* Vocabulary of the properties. *)

Returned == pc = "returned"

NoOptions == Options(FALSE, FALSE, FALSE, FALSE, FALSE)

\* no .pages file, no directory-content file and nothing ignored anywhere
PlainTree ==
    \A p \in DOMAIN tree :
        ~tree[p].pages_file /\ tree[p].content = None /\ ~tree[p].ignored

PagesOf(p) == {i \in 1..Len(processed_pages) : origin[i] = p}

\* page i was built from one of the plain documents of its directory
IsDocPage(i) ==
    /\ processed_pages[i].file_path # None
    /\ \E d \in tree[origin[i]].docs :
           Get(processed_pages[i].file_path).name = d.name

DocPagesOf(p) == {i \in PagesOf(p) : IsDocPage(i)}
FolderPagesOf(p) == {i \in PagesOf(p) : ~IsDocPage(i)}

HasSubdirs(p) == \E q \in DOMAIN tree : Len(q) = Len(p) + 1 /\ SubSeq(q, 1, Len(p)) = p

\* the nearest proper ancestor of p that holds a document, the start
\* directory when none does
AnchorOf(p) ==
    LET withDocs == {k \in 0..(Len(p) - 1) : tree[SubSeq(p, 1, k)].docs # {}}
    IN IF withDocs = {} THEN <<>>
       ELSE SubSeq(p, 1, CHOOSE k \in withDocs : \A j \in withDocs : j <= k)

\* the title a directory has when its own name is its title
NameTitle(p) == IF p = <<>> THEN None ELSE Some(p[Len(p)])

-----------------------------------------------------------------------------
(* C1 *)

\* C1: every page of the returned list whose parent_title is set has the
\* title of a page at a strictly earlier index as parent_title.
C1_ParentsFirst ==
    Returned =>
        \A i \in 1..Len(processed_pages) :
            processed_pages[i].parent_title # None =>
                \E j \in 1..(i - 1) :
                    processed_pages[j].title = processed_pages[i].parent_title

-----------------------------------------------------------------------------
(* C2 *)

\* C2: upserting the returned pages one at a time in list order against a
\* remote store that starts empty never fails with the parent-not-found
\* error: whenever a page with parent_title set is reconciled, a remote page
\* with that title exists.
C2_ParentFound ==
    \A k \in 1..Len(results) :
        /\ results[k].action # "KeyError"
        /\ processed_pages[results[k].index].parent_title # None =>
               results[k].parent_held

-----------------------------------------------------------------------------
(* C3 *)

\* C3: with default options and no .pages or directory-content files the walk
\* returns, and in its list: the start directory has no page and its
\* documents have no parent; every other directory with a document or a
\* subdirectory has exactly one folder page, titled with the directory name,
\* with empty body and no file_path, under its parent directory's title
\* (None directly under the start directory); a directory with neither has no
\* page; every document's parent_title is its own directory's title.
C3_DefaultLayout ==
    (opts = NoOptions /\ PlainTree) =>
        /\ pc # "raised"
        /\ Returned =>
            \A p \in DOMAIN tree :
                /\ \A i \in DocPagesOf(p) :
                       processed_pages[i].parent_title = NameTitle(p)
                /\ p = <<>> => FolderPagesOf(p) = {}
                /\ (p # <<>> /\ (tree[p].docs # {} \/ HasSubdirs(p))) =>
                       /\ Cardinality(FolderPagesOf(p)) = 1
                       /\ \A i \in FolderPagesOf(p) :
                              /\ processed_pages[i].title = Some(p[Len(p)])
                              /\ processed_pages[i].body = ""
                              /\ processed_pages[i].file_path = None
                              /\ processed_pages[i].parent_title =
                                     NameTitle(SubSeq(p, 1, Len(p) - 1))
                /\ (p # <<>> /\ tree[p].docs = {} /\ ~HasSubdirs(p)) =>
                       PagesOf(p) = {}

\* a returned default walk over root/x/y with documents in y, an empty leaf
\* beside it and a document in the start directory
C3_Witness ==
    /\ Returned /\ opts = NoOptions /\ PlainTree
    /\ DocPagesOf(<<>>) # {}
    /\ \E p \in DOMAIN tree :
           /\ Len(p) = 2 /\ DocPagesOf(p) # {}
           /\ tree[SubSeq(p, 1, 1)].docs = {}
    /\ \E p \in DOMAIN tree : p # <<>> /\ tree[p].docs = {} /\ ~HasSubdirs(p)
-----------------------------------------------------------------------------
(* C4 *)

\* the title the walk resolved for directory q
ResolvedTitle(q) == IF q \in DOMAIN folder_data THEN folder_data[q].title ELSE None

\* a directory below the start directory with exactly one document, which
\* can be read, and no subdirectories
SingleLeaf(p) ==
    /\ p # <<>>
    /\ Cardinality(tree[p].docs) = 1
    /\ \A d \in tree[p].docs : d.readable
    /\ ~HasSubdirs(p)

\* C4: with collapse_single_pages enabled, once the walk has ended, a
\* directory below the start directory that holds exactly one document and no
\* subdirectories has no folder page, and its document is in the list with
\* the resolved title of the directory's parent directory as parent_title.
C4_CollapseSinglePages ==
    (opts = Options(TRUE, FALSE, FALSE, FALSE, FALSE) /\ PlainTree
         /\ pc \in {"returned", "raised"}) =>
        \A p \in DOMAIN tree :
            SingleLeaf(p) =>
                /\ FolderPagesOf(p) = {}
                /\ \E i \in DocPagesOf(p) :
                       processed_pages[i].parent_title =
                           ResolvedTitle(SubSeq(p, 1, Len(p) - 1))

-----------------------------------------------------------------------------
(* C5 *)

\* C5: with skip_empty enabled and no .pages or directory-content files the
\* walk returns, and in its list: a directory without documents has no page;
\* a directory below the start directory with documents has one folder page,
\* titled with its name, whose parent_title is the name of the nearest
\* ancestor that holds a document, None when that is the start directory or
\* no ancestor holds one; its documents have the folder's name as
\* parent_title.
C5_SkipEmpty ==
    (opts = Options(FALSE, TRUE, FALSE, FALSE, FALSE) /\ PlainTree) =>
        /\ pc # "raised"
        /\ Returned =>
            \A p \in DOMAIN tree :
                /\ tree[p].docs = {} => PagesOf(p) = {}
                /\ (p # <<>> /\ tree[p].docs # {}) =>
                       /\ Cardinality(FolderPagesOf(p)) = 1
                       /\ \A i \in FolderPagesOf(p) :
                              /\ processed_pages[i].title = Some(p[Len(p)])
                              /\ processed_pages[i].parent_title =
                                     NameTitle(AnchorOf(p))
                /\ \A i \in DocPagesOf(p) :
                       processed_pages[i].parent_title = NameTitle(p)

\* a returned skip_empty walk over x/y/z where x and z hold documents and y
\* holds none: z's folder page is under x
C5_Witness ==
    /\ Returned /\ opts = Options(FALSE, TRUE, FALSE, FALSE, FALSE) /\ PlainTree
    /\ \E p \in DOMAIN tree :
           /\ Len(p) = 3
           /\ tree[SubSeq(p, 1, 2)].docs = {}
           /\ tree[SubSeq(p, 1, 1)].docs # {}
           /\ DocPagesOf(p) # {}
           /\ \E i \in FolderPagesOf(p) :
                  processed_pages[i].parent_title = Some(p[1])

-----------------------------------------------------------------------------
(* C6 *)

\* the names of a relative path written with "/" between them
RECURSIVE Slashed(_)
Slashed(names) ==
    IF Len(names) = 1 THEN names[1]
    ELSE Slashed(SubSeq(names, 1, Len(names) - 1)) \o <<"/">> \o names[Len(names)]

\* the title of the merged folder page of p: its path from the nearest
\* ancestor with documents (from the start directory when there is none)
MergedTitle(p) ==
    IF p = <<>> THEN None
    ELSE Some(Slashed(SubSeq(p, Len(AnchorOf(p)) + 1, Len(p))))

\* C6: with collapse_empty enabled, beautify_folders off and no .pages or
\* directory-content files the walk returns, and in its list: a directory
\* without documents has no page; a directory below the start directory with
\* documents has one folder page, titled with its slash-joined path from the
\* nearest ancestor that holds a document (from the start directory when none
\* does), under that ancestor's title (None for the start directory); its
\* documents have the merged title as parent_title.
C6_CollapseEmpty ==
    (opts \in {Options(FALSE, se, TRUE, FALSE, FALSE) : se \in BOOLEAN}
         /\ PlainTree) =>
        /\ pc # "raised"
        /\ Returned =>
            \A p \in DOMAIN tree :
                /\ tree[p].docs = {} => PagesOf(p) = {}
                /\ (p # <<>> /\ tree[p].docs # {}) =>
                       /\ Cardinality(FolderPagesOf(p)) = 1
                       /\ \A i \in FolderPagesOf(p) :
                              /\ processed_pages[i].title = MergedTitle(p)
                              /\ processed_pages[i].parent_title =
                                     MergedTitle(AnchorOf(p))
                /\ \A i \in DocPagesOf(p) :
                       processed_pages[i].parent_title = MergedTitle(p)

\* a returned collapse_empty walk over x/y/z where x and z hold documents and
\* y holds none: z's folder page is titled "y/z" and is under x
C6_Witness ==
    /\ Returned /\ opts = Options(FALSE, FALSE, TRUE, FALSE, FALSE) /\ PlainTree
    /\ \E p \in DOMAIN tree :
           /\ Len(p) = 3
           /\ tree[SubSeq(p, 1, 2)].docs = {}
           /\ tree[SubSeq(p, 1, 1)].docs # {}
           /\ DocPagesOf(p) # {}
           /\ \E i \in FolderPagesOf(p) :
                  /\ processed_pages[i].title = Some(p[2] \o <<"/">> \o p[3])
                  /\ processed_pages[i].parent_title = Some(p[1])

-----------------------------------------------------------------------------
(* C7 *)

\* what the two directory names of the model read as once beautified
Pretty(name) ==
    IF name = <<"a", "_", "B">> THEN <<"A", " ", "b">>
    ELSE IF name = <<"c", "-", "d">> THEN <<"C", " ", "d">>
    ELSE name

\* C7: with beautify_folders enabled alone and no .pages or directory-content
\* files the walk returns, and in its list every folder page of a directory
\* below the start directory is titled with the directory name with "-" and
\* "_" replaced by a space and then capitalized, and the directory's
\* documents and the folder pages of its subdirectories have that title as
\* parent_title.
C7_BeautifyFolders ==
    (opts = Options(FALSE, FALSE, FALSE, TRUE, FALSE) /\ PlainTree) =>
        /\ pc # "raised"
        /\ Returned =>
            \A p \in DOMAIN tree \ {<<>>} :
                /\ \A i \in FolderPagesOf(p) :
                       processed_pages[i].title = Some(Pretty(p[Len(p)]))
                /\ \A i \in DocPagesOf(p) :
                       processed_pages[i].parent_title = Some(Pretty(p[Len(p)]))
                /\ \A q \in DOMAIN tree :
                       (Len(q) = Len(p) + 1 /\ SubSeq(q, 1, Len(p)) = p) =>
                           \A i \in FolderPagesOf(q) :
                               processed_pages[i].parent_title =
                                   Some(Pretty(p[Len(p)]))

\* a returned beautify_folders walk with folder pages "A b" and, below it,
\* "C d", which holds a document
C7_Witness ==
    /\ Returned /\ opts = Options(FALSE, FALSE, FALSE, TRUE, FALSE) /\ PlainTree
    /\ \E i, j \in 1..Len(processed_pages) :
           /\ i < j
           /\ processed_pages[i].title = Some(<<"A", " ", "b">>)
           /\ processed_pages[j].title = Some(<<"C", " ", "d">>)
           /\ processed_pages[j].parent_title = Some(<<"A", " ", "b">>)
           /\ DocPagesOf(origin[j]) # {}
-----------------------------------------------------------------------------
(* C8 *)

\* C8: with use_pages_file enabled alone the walk returns, and in its list a
\* directory (the start directory included) with a .pages file that has a
\* title key, a document and no directory-content file has one folder page,
\* titled with the .pages title, and its documents have that title as
\* parent_title; the visit of a directory without a .pages file gives what it
\* gives with use_pages_file disabled.
C8_PagesFileTitle ==
    opts = Options(FALSE, FALSE, FALSE, FALSE, TRUE) =>
        /\ pc # "raised"
        /\ Returned =>
            \A p \in DOMAIN tree :
                (/\ tree[p].pages_file /\ tree[p].pages_title # None
                 /\ tree[p].docs # {} /\ tree[p].content = None) =>
                    /\ Cardinality(FolderPagesOf(p)) = 1
                    /\ \A i \in FolderPagesOf(p) :
                           processed_pages[i].title = tree[p].pages_title
                    /\ DocPagesOf(p) # {}
                    /\ \A i \in DocPagesOf(p) :
                           processed_pages[i].parent_title = tree[p].pages_title
        /\ (pc = "walk" /\ todo # <<>> /\ ~tree[Head(todo)].pages_file) =>
               VisitDirectory(tree, Head(todo), folder_data, processed_pages, opts)
                   = VisitDirectory(tree, Head(todo), folder_data,
                                    processed_pages, NoOptions)

\* a returned use_pages_file walk where the start directory and a directory
\* below it both take their titles from .pages files, and a third directory
\* without one keeps its name
C8_Witness ==
    /\ Returned /\ opts = Options(FALSE, FALSE, FALSE, FALSE, TRUE)
    /\ \E p \in DOMAIN tree \ {<<>>} :
           /\ tree[p].pages_file /\ tree[p].pages_title # None
           /\ tree[p].content = None /\ DocPagesOf(p) # {}
    /\ tree[<<>>].pages_file /\ tree[<<>>].pages_title # None
    /\ tree[<<>>].content = None /\ DocPagesOf(<<>>) # {}
    /\ \E p \in DOMAIN tree \ {<<>>} :
           /\ ~tree[p].pages_file
           /\ \E i \in FolderPagesOf(p) : processed_pages[i].title = Some(p[Len(p)])

-----------------------------------------------------------------------------
(* C9 *)

\* directory p holds a directory-content file that is read, and no .pages
\* title applies to it
HasContentPage(p) ==
    /\ tree[p].content # None
    /\ ~tree[p].content_ignored
    /\ tree[p].content[1].readable
    /\ ~(opts.use_pages_file /\ tree[p].pages_file /\ tree[p].pages_title # None)

\* the name of the directory-content file of p
ContentFileName(p) == <<"_">> \o (IF p = <<>> THEN <<"r">> ELSE p[Len(p)])

\* C9: with the folding options off the walk returns, and in its list a
\* directory (the start directory included) with a directory-content file to
\* which no .pages title applies has one folder page, with the file's title,
\* body, labels, attachments and path; no other page has that path; the
\* folder page comes before the directory's documents; the directory's
\* documents and the folder pages of its subdirectories have the file's title
\* as parent_title.
C9_ContentFilePage ==
    (opts.collapse_single_pages = FALSE /\ opts.skip_empty = FALSE
         /\ opts.collapse_empty = FALSE /\ opts.beautify_folders = FALSE) =>
        /\ pc # "raised"
        /\ Returned =>
            \A p \in DOMAIN tree :
                HasContentPage(p) =>
                    /\ Cardinality(FolderPagesOf(p)) = 1
                    /\ \A i \in FolderPagesOf(p) :
                           /\ processed_pages[i].title = Some(<<"C", "t">>)
                           /\ processed_pages[i].body = "body-c"
                           /\ processed_pages[i].labels = Some(<<"lc">>)
                           /\ processed_pages[i].attachments = <<"c.png">>
                           /\ processed_pages[i].file_path =
                                  Some([dir |-> p, name |-> ContentFileName(p)])
                           /\ \A j \in DocPagesOf(p) : i < j
                    /\ Cardinality({i \in 1..Len(processed_pages) :
                           processed_pages[i].file_path =
                               Some([dir |-> p, name |-> ContentFileName(p)])}) = 1
                    /\ \A i \in DocPagesOf(p) :
                           processed_pages[i].parent_title = Some(<<"C", "t">>)
                    /\ \A q \in DOMAIN tree :
                           (Len(q) = Len(p) + 1 /\ SubSeq(q, 1, Len(p)) = p) =>
                               \A i \in FolderPagesOf(q) :
                                   processed_pages[i].parent_title =
                                       Some(<<"C", "t">>)

\* a returned walk where the start directory and a directory below it both
\* have a directory-content file and a document, and the lower one has a
\* subdirectory with a folder page
C9_Witness ==
    /\ Returned /\ opts = Options(FALSE, FALSE, FALSE, FALSE, FALSE)
    /\ HasContentPage(<<>>) /\ DocPagesOf(<<>>) # {}
    /\ \E p \in DOMAIN tree :
           /\ Len(p) = 1 /\ HasContentPage(p) /\ DocPagesOf(p) # {}
           /\ \E q \in DOMAIN tree :
                  /\ Len(q) = 2 /\ SubSeq(q, 1, 1) = p
                  /\ FolderPagesOf(q) # {}

-----------------------------------------------------------------------------
(* C10 *)

C10_WitnessTopLevel ==
    /\ uopts.only_changed /\ uopts.message = <<>>
    /\ Len(results) = 2
    /\ results[1].action = "CREATED"
    /\ results[2].action = "SKIPPED"
    /\ processed_pages[1].parent_title = None
    /\ processed_pages[1].parent_id = None
    /\ processed_pages[1].labels = None
-----------------------------------------------------------------------------
(* C11 *)

\* the remote page handed to upsert_attachment is there and has an id
PageIsValid == aopts.existing_page # None /\ Get(aopts.existing_page).id # None

\* the number of times a call was made
Count(calls, name) == Cardinality({c \in 1..Len(calls) : calls[c] = name})

\* C11: with only_changed=True, a valid remote page and an attachment file
\* that exists, upsert_attachment returns CREATED when the remote page has
\* no attachment of that file name; the call that follows a call for the
\* same file returns SKIPPED without create_attachment or update_attachment
\* when the bytes are the same, and UPDATED with exactly one
\* update_attachment when the bytes have changed.
C11_AttachmentCreatedSkippedUpdated ==
    (aopts.only_changed /\ PageIsValid) =>
        \A k \in 1..Len(aresults) :
            LET r == aresults[k]
            IN r.file # None =>
                /\ r.held = None => r.action = "CREATED"
                /\ (/\ k > 1
                    /\ aresults[k - 1].resolved = r.resolved
                    /\ aresults[k - 1].file # None) =>
                       IF aresults[k - 1].file = r.file
                       THEN /\ r.action = "SKIPPED"
                            /\ Count(r.calls, "create_attachment") = 0
                            /\ Count(r.calls, "update_attachment") = 0
                       ELSE /\ r.action = "UPDATED"
                            /\ Count(r.calls, "update_attachment") = 1
                            /\ Count(r.calls, "create_attachment") = 0

\* three calls for the same file: CREATED, then SKIPPED with the bytes
\* unchanged, then UPDATED after the bytes changed
C11_Witness ==
    /\ aopts.only_changed /\ PageIsValid
    /\ Len(aresults) = 3
    /\ aresults[1].resolved = aresults[2].resolved
    /\ aresults[2].resolved = aresults[3].resolved
    /\ aresults[1].action = "CREATED"
    /\ aresults[2].action = "SKIPPED" /\ aresults[2].file = aresults[1].file
    /\ aresults[3].action = "UPDATED" /\ aresults[3].file # aresults[2].file
    /\ aresults[3].file # None

-----------------------------------------------------------------------------
(* C12 *)

\* the message ends with the token that carries the hash
EndsWithToken(message, hash) ==
    /\ Len(message) >= HashLen + 3
    /\ SubSeq(message, Len(message) - HashLen - 2, Len(message))
           = <<"[", "v">> \o hash \o <<"]">>

\* the placement asked for differs from that of the remote page: top level
\* asked for a nested page, a parent asked for a top-level page, or a parent
\* other than the last ancestor
Moves(parent_id, ancestors) ==
    \/ parent_id = None /\ ancestors # <<>>
    \/ parent_id # None /\ ancestors = <<>>
    \/ parent_id # None /\ ancestors # <<>>
          /\ Get(parent_id) # ancestors[Len(ancestors)]

-----------------------------------------------------------------------------
(* C13 *)

\* the message ends with a token: [v, HashLen hexadecimal digits, ]
EndsWithAnyToken(message) ==
    /\ Len(message) >= HashLen + 3
    /\ message[Len(message)] = "]"
    /\ message[Len(message) - HashLen - 2] = "["
    /\ message[Len(message) - HashLen - 1] = "v"
    /\ \A i \in (Len(message) - HashLen)..(Len(message) - 1) :
           message[i] \in HexDigits

\* C13: with only_changed=True, a remote page whose revision message does
\* not end with a token, a token followed by further text included, is never
\* SKIPPED: upsert_page returns UPDATED.
C13_NoTokenNeverSkipped ==
    uopts.only_changed =>
        \A k \in 1..Len(results) :
            LET r == results[k]
            IN (/\ r.existing # None
                /\ r.action # "KeyError"
                /\ ~EndsWithAnyToken(Get(r.existing).message)) =>
                   r.action = "UPDATED"

-----------------------------------------------------------------------------
(* C14 *)

\* C14: whenever upsert_page returns SKIPPED, the call sent no write (no
\* create_page, update_page or add_labels) and the remote page is unchanged.
C14_SkippedWritesNothing ==
    \A k \in 1..Len(results) :
        results[k].action = "SKIPPED" =>
            /\ results[k].calls = <<>>
            /\ results[k].after = results[k].existing
            /\ ~results[k].wrote

\* the two lists differ once sorted
DifferSorted(a, b) ==
    \E x \in {a[i] : i \in 1..Len(a)} \cup {b[i] : i \in 1..Len(b)} :
        Cardinality({i \in 1..Len(a) : a[i] = x})
            # Cardinality({i \in 1..Len(b) : b[i] = x})

\* C14, amended: whenever upsert_page returns SKIPPED, the call sent neither
\* create_page nor update_page, and the body, revision message and ancestors
\* of the remote page are unchanged; add_labels with page.labels is the one
\* write it can send, and it sends it exactly when replace_all_labels is
\* False and page.labels is a non-empty list that differs, once sorted, from
\* the labels of the remote page; without it the remote store is unchanged.
C14_SkippedWritesNoBody ==
    \A k \in 1..Len(results) :
        LET r == results[k]
            adds == /\ ~uopts.replace_all_labels
                    /\ r.page.labels # None
                    /\ Get(r.page.labels) # <<>>
                    /\ DifferSorted(Get(r.existing).labels, Get(r.page.labels))
        IN r.action = "SKIPPED" =>
            /\ r.existing # None /\ r.after # None
            /\ Get(r.after).body = Get(r.existing).body
            /\ Get(r.after).message = Get(r.existing).message
            /\ Get(r.after).ancestors = Get(r.existing).ancestors
            /\ r.calls = IF adds THEN <<"add_labels">> ELSE <<>>
            /\ adds => r.labels_sent = <<r.page.labels>>
            /\ ~adds => ~r.wrote

\* a call that returns SKIPPED and has sent add_labels
C14_Witness ==
    /\ Len(results) >= 1
    /\ results[1].action = "SKIPPED"
    /\ results[1].calls = <<"add_labels">>
    /\ Get(results[1].after).labels # Get(results[1].existing).labels

-----------------------------------------------------------------------------
(* C15 *)

\* the labels of a list, as a set
LabelSet(labels) == {labels[i] : i \in 1..Len(labels)}

\* C15: for a remote page that exists, when replace_all_labels is False
\* update_page is called with labels=None, the only label write is
\* add_labels with page.labels, and no label of the remote page is removed
\* or replaced; when page.labels is None no label write is made, the labels
\* of the remote page stay, and labels cause no update, whatever
\* replace_all_labels is.
C15_LabelsOnlyAdded ==
    \A k \in 1..Len(results) :
        LET r == results[k]
        IN (r.existing # None /\ r.action # "KeyError") =>
            /\ ~uopts.replace_all_labels =>
                /\ \A c \in 1..Len(r.calls) :
                       /\ r.calls[c] = "update_page" => r.labels_sent[c] = None
                       /\ r.calls[c] = "add_labels" =>
                              r.labels_sent[c] = r.page.labels
                       /\ r.calls[c] # "create_page"
                /\ LabelSet(Get(r.existing).labels) \subseteq
                       LabelSet(Get(r.after).labels)
                /\ \A i \in 1..Len(Get(r.existing).labels) :
                       Get(r.after).labels[i] = Get(r.existing).labels[i]
            /\ r.page.labels = None =>
                /\ \A c \in 1..Len(r.calls) :
                       r.calls[c] = "update_page" /\ r.labels_sent[c] = None
                /\ Get(r.after).labels = Get(r.existing).labels
                /\ (/\ uopts.only_changed
                    /\ EndsWithToken(Get(r.existing).message, Sha1(r.page.body))
                    /\ ~Moves(r.page_after.parent_id, Get(r.existing).ancestors)) =>
                       r.action = "SKIPPED"

\* without replace_all_labels, a remote page labelled l3 is updated for a
\* page labelled l1: update_page with labels=None, then add_labels
C15_Witness ==
    /\ ~uopts.replace_all_labels
    /\ Len(results) >= 1
    /\ results[1].calls = <<"update_page", "add_labels">>
    /\ Get(results[1].existing).labels = <<"l3">>
    /\ results[1].page.labels = Some(<<"l1">>)
    /\ Get(results[1].after).labels = <<"l3", "l1">>

\* under replace_all_labels, a page without labels whose fingerprint the
\* labelled remote page carries is SKIPPED
C15_WitnessNoLabels ==
    /\ uopts.replace_all_labels /\ uopts.only_changed
    /\ Len(results) >= 1
    /\ results[1].page.labels = None
    /\ results[1].existing # None
    /\ Get(results[1].existing).labels = <<"l1", "l2">>
    /\ results[1].action = "SKIPPED"

-----------------------------------------------------------------------------
(* C16 *)

\* C16: if page.parent_id is None, page.parent_title is set and the remote
\* store holds no page of that title, upsert_page fails with KeyError, makes
\* no create_page, update_page or add_labels call, and leaves page.parent_id
\* None, whether or not the page itself exists remotely.
C16_ParentNotFound ==
    \A k \in 1..Len(results) :
        LET r == results[k]
        IN (/\ r.page.parent_id = None
            /\ r.page.parent_title # None
            /\ ~r.parent_held) =>
               /\ r.action = "KeyError"
               /\ r.calls = <<>>
               /\ ~r.wrote
               /\ r.page_after.parent_id = None

\* the parent is not found for a page that the remote store holds
C16_Witness ==
    /\ Len(results) >= 1
    /\ results[1].page.parent_id = None
    /\ results[1].page.parent_title # None
    /\ ~results[1].parent_held
    /\ results[1].held
    /\ results[1].action = "KeyError"

\* the parent is not found for a page that the remote store does not hold
C16_WitnessNew ==
    /\ Len(results) >= 1
    /\ results[1].page.parent_id = None
    /\ results[1].page.parent_title # None
    /\ ~results[1].parent_held
    /\ ~results[1].held
    /\ results[1].action = "KeyError"

-----------------------------------------------------------------------------
(* C17 *)

\* C17: when the resolved attachment file does not exist, or the remote page
\* handed in is missing or has no id, upsert_attachment returns SKIPPED with
\* a None response and calls none of get_attachment, create_attachment and
\* update_attachment.
C17_AttachmentSkippedQuietly ==
    \A k \in 1..Len(aresults) :
        (aresults[k].file = None \/ ~PageIsValid) =>
            /\ aresults[k].action = "SKIPPED"
            /\ aresults[k].response = None
            /\ aresults[k].calls = <<>>
            /\ ~aresults[k].wrote

\* the file is missing while the remote page holds the attachment
C17_Witness ==
    /\ PageIsValid
    /\ Len(aresults) >= 1
    /\ aresults[1].file = None
    /\ aresults[1].held # None
    /\ aresults[1].action = "SKIPPED"

\* the remote page has no id while the file exists
C17_WitnessNoId ==
    /\ aopts.existing_page # None /\ ~PageIsValid
    /\ Len(aresults) >= 1
    /\ aresults[1].file # None
    /\ aresults[1].action = "SKIPPED"

-----------------------------------------------------------------------------
(* C18 *)

\* the pages of directory p built from the file of that name
PagesOfFile(p, name) ==
    {i \in PagesOf(p) :
        processed_pages[i].file_path = Some([dir |-> p, name |-> name])}

\* C18: a document that cannot be read, plain document or directory-content
\* file, is left out of the list and does not abort the walk:
\* get_pages_from_directory does not raise and returns the pages of every
\* other document and directory.
C18_UnreadableLeftOut ==
    /\ pc # "raised"
    /\ Returned =>
          \A p \in DOMAIN tree :
              /\ \A doc \in tree[p].docs :
                     IF doc.readable THEN PagesOfFile(p, doc.name) # {}
                     ELSE PagesOfFile(p, doc.name) = {}
              /\ tree[p].content # None =>
                     IF Get(tree[p].content).readable
                     THEN PagesOfFile(p, ContentFileName(p)) # {}
                     ELSE PagesOfFile(p, ContentFileName(p)) = {}

-----------------------------------------------------------------------------
(* C19 *)

\* the frontmatter of the document holds a labels field that is not a list
LabelsNotList ==
    LET fm == GetDocumentFrontmatter(markdown_lines)
    IN /\ fm.raised = ""
       /\ "labels" \in DOMAIN fm.frontmatter
       /\ fm.frontmatter["labels"].type # "list"

\* the document with its labels lines blanked
WithoutLabels ==
    [i \in 1..Len(markdown_lines) |->
        IF markdown_lines[i] \in {"labels: abc\n", "labels: [l1]\n"}
        THEN "\n" ELSE markdown_lines[i]]

\* C19: when the frontmatter has a labels field that is not a list, both
\* page builders still build the page, without raising, with labels None
\* and every other field as without that field.
C19_LabelsNotList ==
    (/\ built.fn \in {"get_page_data_from_lines", "get_page_data_from_file_path"}
     /\ LabelsNotList) =>
        /\ built.raised = ""
        /\ built.value # None
        /\ Get(built.value).labels = None
        /\ DOMAIN GetDocumentFrontmatter(WithoutLabels).frontmatter # {} =>
               built.value =
                   IF built.fn = "get_page_data_from_lines"
                   THEN GetPageDataFromLines(WithoutLabels).page
                   ELSE GetPageDataFromFilePath(base_path,
                                                DocOfLines(<<"p">>, WithoutLabels))

-----------------------------------------------------------------------------
(* C20 *)

\* the positions of the marker lines after the first line
LaterMarkers == {i \in 2..Len(markdown_lines) : markdown_lines[i] = "---\n"}

\* the lines between the first line and the first later marker line
Between ==
    SubSeq(markdown_lines, 2,
           (CHOOSE i \in LaterMarkers : \A j \in LaterMarkers : i <= j) - 1)

\* C20: get_document_frontmatter never raises; it returns a non-empty
\* result exactly when the first line is the marker line, a later marker
\* line exists, and the text between them is non-empty and parses to a
\* mapping; the result is then that mapping plus frontmatter_end_line = the
\* index of the first later marker line + 1; in every other case (malformed
\* YAML included) it returns the empty mapping.
C20_Frontmatter ==
    built.fn = "get_document_frontmatter" =>
        LET framed == /\ markdown_lines # <<>>
                      /\ markdown_lines[1] = "---\n"
                      /\ LaterMarkers # {}
                      /\ Between # <<>>
            parsed == SafeLoad(Between)
            mapped == framed /\ parsed.raised = "" /\ parsed.is_dict
            \* the index, counted from 0, of the first later marker line
            marker == Len(Between) + 1
        IN /\ built.raised = ""
           /\ DOMAIN built.value # {} <=> mapped
           /\ mapped =>
                  /\ DOMAIN built.value =
                         DOMAIN parsed.data \cup {"frontmatter_end_line"}
                  /\ \A key \in DOMAIN parsed.data :
                         built.value[key] = parsed.data[key]
                  /\ built.value["frontmatter_end_line"].value = marker + 1

-----------------------------------------------------------------------------
(* C21 *)

\* the title the frontmatter of the document gives: None when the
\* frontmatter has no title
FrontmatterTitle ==
    LET frontmatter == GetDocumentFrontmatter(markdown_lines).frontmatter
    IN IF "title" \in DOMAIN frontmatter
       THEN Some(frontmatter["title"].value) ELSE None

\* the title the renderer gives for the text after the frontmatter
RenderedTitle ==
    Render(LinesForRendering(markdown_lines,
               GetDocumentFrontmatter(markdown_lines).frontmatter)).title

\* an Optional title that is present and not the empty string
NonEmpty(title) == title # None /\ Get(title) # <<>>

\* C21: the title of a document page built by get_page_data_from_file_path
\* is the frontmatter title when one is present and non-empty, else the
\* rendered title when it is non-empty, else the filename stem; it is never
\* None or empty.
C21_TitlePrecedence ==
    (/\ built.fn = "get_page_data_from_file_path"
     /\ built.raised = ""
     /\ built.value # None) =>
        /\ NonEmpty(Get(built.value).title)
        /\ Get(built.value).title =
               IF NonEmpty(FrontmatterTitle) THEN FrontmatterTitle
               ELSE IF NonEmpty(RenderedTitle) THEN RenderedTitle
               ELSE Some(<<"p">>)

-----------------------------------------------------------------------------
(* C22 *)

\* the directory of path and the directories above it
AtOrAbove(path) == {g \in FsDirs : IsPrefix(g, OwnDirectory(path))}

\* the directories at or above the start path where the search for a root
\* stops: those that hold a .git directory, the file system root (where the
\* search ends without looking) left out
RootsFound ==
    {g \in AtOrAbove(Get(git_repo).repo_path) \ {fs_root} : disk.git[g] = "dir"}

\* the root found: the nearest of them
RootFound == CHOOSE g \in RootsFound : \A h \in RootsFound : Len(h) <= Len(g)

\* the directories from path's own directory up to and including the root
ChainToRoot(path) == {g \in AtOrAbove(path) : IsPrefix(RootFound, g)}

\* the .mdignore file of directory g matches path
MdignoreMatches(g, path) ==
    disk.mdignore[g] # None /\ Matches(Get(disk.mdignore[g]), g, path)

\* C22: is_ignored(path) is True exactly when use_mdignore is True, a
\* directory holding a .git directory was found at or above the start path
\* and a .mdignore file in a directory from path's own directory up to and
\* including that root matches path; .mdignore files above the root or
\* outside path's ancestor chain are never consulted.
C22_IsIgnored ==
    answer # None =>
        LET self == Get(git_repo)
            path == Get(answer).filepath
            consulted == {Get(answer).mdignores[i] :
                              i \in 1..Len(Get(answer).mdignores)}
        IN /\ Get(answer).result <=>
                  /\ self.use_mdignore
                  /\ RootsFound # {}
                  /\ \E g \in ChainToRoot(path) : MdignoreMatches(g, path)
           /\ (~self.use_mdignore \/ RootsFound = {}) => consulted = {}
           /\ (self.use_mdignore /\ RootsFound # {}) =>
                  consulted \subseteq ChainToRoot(path)

\* a path is ignored by the .mdignore of a directory between it and the
\* root, while a .mdignore above the root and one beside the path are there
C22_Witness ==
    /\ answer # None
    /\ Get(answer).result
    /\ RootsFound # {}
    /\ \E g \in FsDirs \ AtOrAbove(Get(answer).filepath) : disk.mdignore[g] # None

\* a path is not ignored although a .mdignore above the root names it
C22_WitnessAboveRoot ==
    /\ answer # None
    /\ ~Get(answer).result
    /\ Get(git_repo).use_mdignore
    /\ RootsFound # {}
    /\ IsPrefix(RootFound, Get(answer).filepath)
    /\ \E g \in AtOrAbove(Get(answer).filepath) \ ChainToRoot(Get(answer).filepath) :
           MdignoreMatches(g, Get(answer).filepath)
-----------------------------------------------------------------------------
(* C23 *)

\* directory p has a .pages file with a title key and a directory-content
\* file that is read and has a rendered title
HasBothTitles(p) ==
    /\ tree[p].pages_file /\ tree[p].pages_title # None
    /\ tree[p].content # None /\ ~tree[p].content_ignored
    /\ Get(tree[p].content).readable
    /\ Truthy(Get(tree[p].content).rendered_title)

\* C23: with use_pages_file enabled, a directory that has both a .pages
\* file with a title key and a directory-content file with a rendered title
\* emits a folder page titled with the .pages title.
C23_PagesTitleOutranksContent ==
    (Returned /\ opts.use_pages_file) =>
        \A p \in DOMAIN tree :
            HasBothTitles(p) =>
                /\ FolderPagesOf(p) # {}
                /\ \A i \in FolderPagesOf(p) :
                       processed_pages[i].title = tree[p].pages_title
-----------------------------------------------------------------------------
(* C24 *)

\* the directories directly under p
ChildrenOf(p) == {q \in DOMAIN tree : Len(q) = Len(p) + 1 /\ IsPrefix(p, q)}

\* C24: with collapse_single_pages enabled, when the start directory holds
\* exactly one document and has subdirectories, that document has
\* parent_title None and the folder pages of the directories directly under
\* the start directory have parent_title None.
C24_RootDocumentNotParent ==
    (/\ Returned /\ opts.collapse_single_pages
     /\ Cardinality(tree[base_path].docs) = 1
     /\ HasSubdirs(base_path)) =>
        /\ \A i \in DocPagesOf(base_path) : processed_pages[i].parent_title = None
        /\ \A q \in ChildrenOf(base_path) :
               \A i \in FolderPagesOf(q) : processed_pages[i].parent_title = None

-----------------------------------------------------------------------------
(* C25 *)

\* a directory below the start directory with exactly one document, which
\* can be read, and at least one subdirectory
SingleWithSubdirs(p) ==
    /\ p # base_path
    /\ Cardinality(tree[p].docs) = 1
    /\ \A d \in tree[p].docs : d.readable
    /\ HasSubdirs(p)

\* the parent_title the folder page of p would have: that of the page the
\* visit of p emits when p holds two documents instead of one
WouldBeParent(p) ==
    LET two == [tree EXCEPT ![p].docs = {DocP, DocQ}]
        visit == VisitDirectory(two, p, folder_data, <<>>, opts)
    IN visit.pages[1].parent_title

\* C25: with collapse_single_pages enabled, in the returned list a directory
\* below the start directory that holds exactly one readable document and
\* at least one subdirectory has no folder page, its document has the
\* folder's would-be parent as parent_title, and the folder pages of its
\* subdirectories have the document's title as parent_title.
C25_CollapsedWithSubdirs ==
    (Returned /\ opts = Options(TRUE, FALSE, FALSE, FALSE, FALSE) /\ PlainTree) =>
        \A p \in DOMAIN tree :
            SingleWithSubdirs(p) =>
                /\ FolderPagesOf(p) = {}
                /\ Cardinality(DocPagesOf(p)) = 1
                /\ \A i \in DocPagesOf(p) :
                       /\ processed_pages[i].parent_title = WouldBeParent(p)
                       /\ \A q \in ChildrenOf(p) :
                              \A j \in FolderPagesOf(q) :
                                  processed_pages[j].parent_title =
                                      processed_pages[i].title

\* a returned walk where such a directory lies under a start directory with
\* two documents and has a subdirectory with a folder page
C25_Witness ==
    /\ Returned /\ opts = Options(TRUE, FALSE, FALSE, FALSE, FALSE) /\ PlainTree
    /\ DocPagesOf(base_path) # {}
    /\ \E p \in DOMAIN tree :
           /\ SingleWithSubdirs(p)
           /\ DocPagesOf(p) # {}
           /\ \E q \in ChildrenOf(p) : FolderPagesOf(q) # {}

\* the same two levels down, the would-be parent being a folder's name
C25_WitnessDeeper ==
    /\ Returned /\ opts = Options(TRUE, FALSE, FALSE, FALSE, FALSE) /\ PlainTree
    /\ \E p \in DOMAIN tree :
           /\ SingleWithSubdirs(p)
           /\ Len(p) = 2
           /\ WouldBeParent(p) = Some(p[1])
           /\ \E q \in ChildrenOf(p) : FolderPagesOf(q) # {}
-----------------------------------------------------------------------------
(* C26 *)

\* directory p has a directory-content file and no plain document
ContentOnly(p) == tree[p].content # None /\ tree[p].docs = {}

\* the nearest proper ancestor of q that has a document or a
\* directory-content file, the start directory when none has
NonEmptyAncestor(q) ==
    LET filled == {k \in 0..(Len(q) - 1) :
                      \/ tree[SubSeq(q, 1, k)].docs # {}
                      \/ tree[SubSeq(q, 1, k)].content # None}
    IN IF filled = {} THEN base_path
       ELSE SubSeq(q, 1, CHOOSE k \in filled : \A j \in filled : j <= k)

\* C26: with skip_empty enabled, a directory that has a directory-content
\* file but no plain documents emits its folder page and counts as a
\* non-empty ancestor: the folder pages of the directories whose nearest
\* non-empty ancestor it is have its title as parent_title.
C26_ContentFileCounts ==
    (Returned /\ opts.skip_empty) =>
        \A p \in DOMAIN tree :
            ContentOnly(p) =>
                /\ Cardinality(FolderPagesOf(p)) = 1
                /\ \A i \in FolderPagesOf(p) :
                       \A q \in DOMAIN tree \ {base_path} :
                           NonEmptyAncestor(q) = p =>
                               \A j \in FolderPagesOf(q) :
                                   processed_pages[j].parent_title =
                                       processed_pages[i].title
-----------------------------------------------------------------------------
(* C27 *)

\* C27: for every base message and every content, the message composed with
\* only_changed=True ends with the token [v<fingerprint>], and
\* CONTENT_HASH_REGEX recovers exactly that fingerprint from it, whatever
\* token-shaped text the base message holds; with only_changed=False the
\* message is the base message.  The same for upsert_page and the page body
\* as for upsert_attachment and the file.
C27_ComposeThenRecover ==
    composed # None =>
        LET c == Get(composing)
        IN IF c.only_changed
           THEN /\ EndsWithToken(Get(composed), FingerprintOf(c))
                /\ recovered # None => Get(recovered) = Some(FingerprintOf(c))
           ELSE Get(composed) = c.message

\* the fingerprint of a page body recovered from a message whose base holds
\* the token of another body
C27_Witness ==
    /\ recovered # None
    /\ Get(composing).only_changed
    /\ Get(composing).fn = "upsert_page"
    /\ Get(composing).content = "body-p"
    /\ Get(composing).message = ComposeMessage(<<>>, TRUE, Sha1("body-q"))
    /\ Get(recovered) = Some(Sha1("body-p"))

\* the same for a file, the base message being empty
C27_WitnessAttachment ==
    /\ recovered # None
    /\ Get(composing).only_changed
    /\ Get(composing).fn = "upsert_attachment"
    /\ Get(composing).message = <<>>
    /\ Get(recovered) = Some(GetFileSha1(Get(composing).content))
-----------------------------------------------------------------------------
(* C28 *)

\* C28: with only_changed=False, a call of upsert_page that returns gives
\* CREATED when no remote page exists and UPDATED, with one update_page
\* call, when one exists, whatever its revision message, ancestors and
\* labels are; it never gives SKIPPED.  A call of upsert_attachment for an
\* attachment the remote page holds, the file being present, gives UPDATED.
C28_NeverSkippedWithoutOnlyChanged ==
    /\ ~uopts.only_changed =>
           \A k \in 1..Len(results) :
               LET r == results[k]
               IN /\ r.action # "SKIPPED"
                  /\ r.action \in {"CREATED", "UPDATED"} =>
                         IF r.existing = None
                         THEN r.action = "CREATED"
                         ELSE /\ r.action = "UPDATED"
                              /\ Count(r.calls, "update_page") = 1
                              /\ Count(r.calls, "create_page") = 0
    /\ ~aopts.only_changed =>
           \A k \in 1..Len(aresults) :
               LET r == aresults[k]
               IN (/\ PageIsValid
                   /\ r.held # None
                   /\ r.file # None) =>
                      /\ r.action = "UPDATED"
                      /\ Count(r.calls, "update_attachment") = 1

\* an existing page is UPDATED although its revision message carries the
\* fingerprint of the body sent and neither placement nor labels differ
C28_Witness ==
    /\ ~uopts.only_changed
    /\ \E k \in 1..Len(results) :
           /\ results[k].action = "UPDATED"
           /\ results[k].existing # None
           /\ EndsWithToken(Get(results[k].existing).message,
                            Sha1(results[k].page.body))
           /\ ~Moves(results[k].page_after.parent_id,
                     Get(results[k].existing).ancestors)
           /\ results[k].page.labels = None

\* a page is CREATED, then UPDATED by the next call
C28_WitnessCreated ==
    /\ ~uopts.only_changed
    /\ Len(results) = 2
    /\ results[1].action = "CREATED"
    /\ results[2].action = "UPDATED"

\* an attachment whose file did not change since it was created is UPDATED
C28_WitnessAttachment ==
    /\ ~aopts.only_changed
    /\ \E k \in 2..Len(aresults) :
           /\ aresults[k - 1].action = "CREATED"
           /\ aresults[k].action = "UPDATED"
           /\ aresults[k].resolved = aresults[k - 1].resolved
           /\ aresults[k].file = aresults[k - 1].file
-----------------------------------------------------------------------------
(* C29 *)

\* a title without its beautification: "-" and "_" read as spaces, letters
\* in lower case
Unbeautified(title) ==
    LET spaced == Replace(Replace(title, "-", " "), "_", " ")
    IN [i \in 1..Len(spaced) |-> Lower(spaced[i])]

\* the names of the directories from the nearest ancestor with documents
\* down to p
CollapsedSegments(p) == SubSeq(p, Len(AnchorOf(p)) + 1, Len(p))

\* C29: with collapse_empty and beautify_folders both enabled, the folder
\* page of a directory below a chain of empty directories is titled from the
\* whole relative path from the nearest non-empty ancestor down to itself,
\* every collapsed segment kept (beautified or not), not from the last
\* directory name alone.
C29_CollapsedSegmentsKept ==
    (Returned /\ opts.collapse_empty /\ opts.beautify_folders /\ PlainTree) =>
        \A p \in DOMAIN tree \ {base_path} :
            (tree[p].docs # {} /\ Len(CollapsedSegments(p)) >= 2) =>
                /\ FolderPagesOf(p) # {}
                /\ \A i \in FolderPagesOf(p) :
                       /\ processed_pages[i].title # None
                       /\ Unbeautified(Get(processed_pages[i].title)) =
                              Unbeautified(Slashed(CollapsedSegments(p)))
-----------------------------------------------------------------------------
(* C30 *)

\* C30: during the walk every read of folder_data hits a directory entry
\* and a field that an earlier step of the same walk wrote, for every tree,
\* every ignore predicate and every option combination: the walk never
\* fails on a missing entry or field.
C30_FolderDataReadsHit ==
    /\ raised # "KeyError:folder_parent_path"
    /\ raised # "KeyError:parent_title"
====
